---- MODULE Spec2Model ----
(***************************************************************************)
(* Reconstruction of goroutine, processor, GC and STW spans from a parsed  *)
(* execution trace (loadTrace), its concurrent finalization, and the       *)
(* progress reporting of the loader.                                       *)
(***************************************************************************)
EXTENDS Integers, Sequences, FiniteSets, TLC

(***************************************************************************)
(* Bounds of the model.                                                    *)
(***************************************************************************)
\* longest event stream fed to the sequential pass
MaxEvents == 3
\* goroutine ids are 0..MaxGid
MaxGid == 1
\* processor ids are 0..MaxPid
MaxPid == 1
\* largest step between two consecutive timestamps
MaxDt == 1
\* largest number of events in a stream that the loader skips unread
MaxIgnored == 1
\* largest value of runtime.GOMAXPROCS(0)
MaxProcs == 2

Gids == 0..MaxGid
\* goroutine 0 is the runtime's own: it is never created, scheduled or blocked
UserGids == 1..MaxGid
Pids == 0..MaxPid

(***************************************************************************)
(* Program constants.                                                      *)
(***************************************************************************)
debug == TRUE

(***************************************************************************)
(* schedulingState                                                         *)
(***************************************************************************)
stateNone == "stateNone"
stateInactive == "stateInactive"
stateActive == "stateActive"
stateGCIdle == "stateGCIdle"
stateGCDedicated == "stateGCDedicated"
stateBlocked == "stateBlocked"
stateBlockedSend == "stateBlockedSend"
stateBlockedRecv == "stateBlockedRecv"
stateBlockedSelect == "stateBlockedSelect"
stateBlockedSync == "stateBlockedSync"
stateBlockedSyncOnce == "stateBlockedSyncOnce"
stateBlockedSyncTriggeringGC == "stateBlockedSyncTriggeringGC"
stateBlockedCond == "stateBlockedCond"
stateBlockedNet == "stateBlockedNet"
stateBlockedGC == "stateBlockedGC"
stateBlockedSyscall == "stateBlockedSyscall"
stateStuck == "stateStuck"
stateReady == "stateReady"
stateCreated == "stateCreated"
stateDone == "stateDone"
stateGCMarkAssist == "stateGCMarkAssist"
stateGCSweep == "stateGCSweep"
stateRunningG == "stateRunningG"

GoroutineStates ==
  { stateInactive, stateActive, stateGCIdle, stateGCDedicated, stateBlocked,
    stateBlockedSend, stateBlockedRecv, stateBlockedSelect, stateBlockedSync,
    stateBlockedSyncOnce, stateBlockedSyncTriggeringGC, stateBlockedCond,
    stateBlockedNet, stateBlockedGC, stateBlockedSyscall, stateStuck,
    stateReady, stateCreated, stateDone, stateGCMarkAssist, stateGCSweep }

ProcessorStates == { stateRunningG }

schedulingState == {stateNone} \cup GoroutineStates \cup ProcessorStates

BlockedStates ==
  { stateBlocked, stateBlockedSend, stateBlockedRecv, stateBlockedSelect,
    stateBlockedSync, stateBlockedSyncOnce, stateBlockedSyncTriggeringGC,
    stateBlockedCond, stateBlockedNet, stateBlockedGC, stateBlockedSyscall }

\* the rows of the table that have a true entry; every other row is all false
TransitionRows ==
  [ stateInactive |->
      { stateActive, stateReady, stateBlockedSyscall, stateGCMarkAssist },
    stateActive |->
      { stateReady, stateInactive, stateBlocked, stateBlockedSend,
        stateBlockedRecv, stateBlockedSelect, stateBlockedSync,
        stateBlockedSyncOnce, stateBlockedSyncTriggeringGC, stateBlockedCond,
        stateBlockedNet, stateBlockedGC, stateBlockedSyscall, stateStuck,
        stateDone, stateGCMarkAssist, stateGCSweep },
    stateGCIdle |-> { stateReady, stateInactive, stateBlockedSync },
    stateGCDedicated |-> { stateReady, stateInactive, stateBlockedSync },
    stateCreated |->
      { stateActive, stateInactive, stateBlocked, stateBlockedSyscall },
    stateReady |->
      { stateActive, stateGCMarkAssist, stateGCIdle, stateGCDedicated },
    stateBlocked |-> { stateReady },
    stateBlockedSend |-> { stateReady },
    stateBlockedRecv |-> { stateReady },
    stateBlockedSelect |-> { stateReady },
    stateBlockedSync |-> { stateReady },
    stateBlockedSyncOnce |-> { stateReady },
    stateBlockedSyncTriggeringGC |-> { stateReady },
    stateBlockedCond |-> { stateReady },
    stateBlockedNet |-> { stateReady },
    stateBlockedGC |-> { stateReady },
    stateBlockedSyscall |-> { stateReady },
    stateGCMarkAssist |->
      { stateReady, stateActive, stateInactive, stateBlocked,
        stateBlockedSync, stateBlockedGC },
    stateGCSweep |-> { stateActive } ]

\* a variant of the table in which a finished goroutine may be readied again
legalStateTransitionsDoneReady(from, to) ==
  \/ from \in DOMAIN TransitionRows /\ to \in TransitionRows[from]
  \/ from = stateDone /\ to = stateReady

\* a variant of the table that lets a blocked goroutine block again
legalStateTransitionsBlockedTwice(from, to) ==
  \/ from \in DOMAIN TransitionRows /\ to \in TransitionRows[from]
  \/ from \in BlockedStates /\ to \in BlockedStates

\* legalStateTransitions[from][to]
legalStateTransitions(from, to) ==
  from \in DOMAIN TransitionRows /\ to \in TransitionRows[from]


(***************************************************************************)
(* The parse result (trace.ParseResult): the tables the loader reads.      *)
(* Stacks, PCs and Strings are fixed tables; Events is the variable        *)
(* `events`.                                                               *)
(***************************************************************************)
\* res.PCs: program counter -> function name of its frame
PCs ==
  [ pc \in 1..6 |->
      CASE pc = 1 -> "runtime.semacquire1"
        [] pc = 2 -> "sync.(*Once).doSlow"
        [] pc = 3 -> "runtime.gcStart"
        [] pc = 4 -> "main.main"
        [] pc = 5 -> "runtime.bgsweep"
        [] pc = 6 -> "syscall.Read" ]

\* the number of runtime frames of the deepest stack
DeepFrames == 300

\* a stack of n frames of runtime.semacquire1 under which main.main lies
DeepStack(n) == [ i \in 1..(n + 1) |-> IF i <= n THEN 1 ELSE 4 ]

\* res.Stacks: stack id -> program counters, innermost frame first
Stacks ==
  [ id \in 1..7 |->
      CASE id = 1 -> <<1, 2, 4>>
        [] id = 2 -> <<1, 3, 4>>
        [] id = 3 -> <<4>>
        [] id = 4 -> <<5>>
        [] id = 5 -> <<6, 4>>
        [] id = 6 -> DeepStack(DeepFrames)
        [] id = 7 -> DeepStack(255) ]

\* res.Stacks[id]: a stack id that is not in the map yields the nil slice
StackOf(id) == IF id \in DOMAIN Stacks THEN Stacks[id] ELSE <<>>

\* res.Strings: string id -> string
Strings ==
  [ id \in 1..3 |->
      CASE id = 1 -> "GC (dedicated)"
        [] id = 2 -> "GC (idle)"
        [] id = 3 -> "worker" ]

\* strings.HasPrefix(fn, "runtime.") over the function names of PCs
HasRuntimePrefix(fn) ==
  fn \in { "runtime.semacquire1", "runtime.gcStart", "runtime.bgsweep" }

\* the background goroutines that idle rather than block
blockedIsInactive(fn) ==
  /\ fn # ""
  /\ fn \in { "runtime.gcBgMarkWorker", "runtime.forcegchelper",
              "runtime.bgsweep", "runtime.bgscavenge", "runtime.runfinq" }

\* blockedIsInactive without the background goroutines
blockedIsInactiveNever(fn) == FALSE

(***************************************************************************)
(* Event types of package trace, grouped as the cases of loadTrace switch.  *)
(***************************************************************************)
BlockTypes ==
  { "EvGoBlockSend", "EvGoBlockRecv", "EvGoBlockSelect", "EvGoBlockSync",
    "EvGoBlockCond", "EvGoBlockNet", "EvGoBlockGC" }

UserTaskTypes == { "EvUserTaskCreate", "EvUserTaskEnd", "EvUserRegion" }

ProcTypes == { "EvProcStart", "EvProcStop" }

\* event types the switch has no case for
UnsupportedTypes ==
  { "EvNone", "EvBatch", "EvFrequency", "EvStack", "EvTimerGoroutine",
    "EvFutileWakeup", "EvString", "EvGoStartLocal", "EvGoUnblockLocal",
    "EvGoSysExitLocal" }

evTypeToState ==
  [ EvGoBlockSend |-> stateBlockedSend,
    EvGoBlockRecv |-> stateBlockedRecv,
    EvGoBlockSelect |-> stateBlockedSelect,
    EvGoBlockSync |-> stateBlockedSync,
    EvGoBlockCond |-> stateBlockedCond,
    EvGoBlockNet |-> stateBlockedNet,
    EvGoBlockGC |-> stateBlockedGC,
    EvGoBlock |-> stateBlocked ]

\* pState of an event
pNone == "pNone"
pRunG == "pRunG"
pStopG == "pStopG"

(***************************************************************************)
(* Span and its packed event reference.                                    *)
(***************************************************************************)
\* packEventID keeping one byte too few
packEventID4(id) ==
  << id % 256, (id \div 256) % 256, (id \div 65536) % 256,
     (id \div 16777216) % 256, 0 >>

\* packEventID: the five low bytes of id, least significant first
packEventID(id) ==
  << id % 256, (id \div 256) % 256, (id \div 65536) % 256,
     (id \div 16777216) % 256, ((id \div 65536) \div 65536) % 256 >>

\* Span.event(): the event id of a span
event(s) ==
  s.event_[1] + s.event_[2] * 256 + s.event_[3] * 65536
    + s.event_[4] * 16777216 + (s.event_[5] * 65536) * 65536

\* Span{state: state, event_: packEventID(EventID(evID))}
NewSpan(state, evID) ==
  [ end |-> 0, event_ |-> packEventID(evID), at |-> 0, state |-> state ]

\* &Goroutine{id: gid}
NewGoroutine == [ function |-> "", spans |-> <<>>, events |-> <<>> ]

\* &Processor{id: pid}
NewProcessor == [ spans |-> <<>> ]

\* getG: the map with goroutine gid in it
getG(gs, gid) ==
  IF gid \in DOMAIN gs THEN gs ELSE gs @@ (gid :> NewGoroutine)

\* getP: the map with processor pid in it
getP(ps, pid) ==
  IF pid \in DOMAIN ps THEN ps ELSE ps @@ (pid :> NewProcessor)

\* addEventToCurrentSpan putting the reference in front of the list
addEventToCurrentSpanInFront(gs, gid, evID) ==
  IF gid = 0
    THEN gs
    ELSE [ getG(gs, gid) EXCEPT ![gid].events = << evID >> \o @ ]

\* addEventToCurrentSpan: record a side event of goroutine gid
addEventToCurrentSpan(gs, gid, evID) ==
  IF gid = 0
    THEN gs
    ELSE [ getG(gs, gid) EXCEPT ![gid].events = Append(@, evID) ]

\* gsByID[gid].function; the counting pass has created gid before the
\* main pass reads it
FunctionOf(gs, gid) == IF gid \in DOMAIN gs THEN gs[gid].function ELSE ""

\* the stack of a syscall of the goroutine with the lowest id, whoever asks
LastSyscallOfAnyone(ls, gid) ==
  IF DOMAIN ls = {}
    THEN 0
    ELSE ls[CHOOSE k \in DOMAIN ls : \A j \in DOMAIN ls : k <= j]

\* lastSyscall[gid]; a missing key reads as zero
LastSyscallOf(ls, gid) == IF gid \in DOMAIN ls THEN ls[gid] ELSE 0

\* res.Events[id] (event ids count from zero)
EventAt(evs, id) == evs[id + 1]


(***************************************************************************)
(* State.                                                                  *)
(***************************************************************************)
VARIABLES
  events,       \* res.Events, up to the event the main loop has reached
  gsByID,       \* goroutine id -> Goroutine (function, spans, events)
  psByID,       \* processor id -> Processor (spans)
  gc,           \* the GC spans
  stw,          \* the STW spans
  lastSyscall,  \* goroutine id -> stack id of its last EvGoSysCall
  inMarkAssist, \* goroutine ids that are in mark assist
  pc,           \* where loadTrace is: seq, finalize, assemble, done, error, panic
  err,          \* why loadTrace failed, "" while it has not
  trace         \* the *Trace that loadTrace returned, NoTrace before and on failure

loaderVars ==
  << events, gsByID, psByID, gc, stw, lastSyscall, inMarkAssist, pc, err,
     trace >>

VARIABLES
  script,       \* the events the event source has still to deliver (scripted runs)
  gomaxprocs,   \* runtime.GOMAXPROCS(0), the capacity of sem
  sem,          \* number of tokens in the channel sem
  wg,           \* the counter of the sync.WaitGroup
  rangeG,       \* the loop variable g of `for _, g := range gsByID`, -1 outside
  unit          \* goroutine id -> where its finalization goroutine is

finVars == << script, gomaxprocs, sem, wg, rangeG, unit >>

VARIABLES
  commands,     \* main's channel of commands, the ch of loadTrace
  wcommands,    \* the window's channel, which main's loop forwards to
  progress,     \* the progress variable of MainWindow.Run
  sent,         \* the setProgress values commands has taken, in order
  read,         \* countingReader.read
  closed,       \* has the done channel been closed?
  lpc,          \* where the goroutine that calls loadTrace is
  tpc,          \* where the goroutine that reports the reader's progress is
  tval,         \* the value that goroutine is about to send
  ticks,        \* how often its ticker has fired
  nEvents,      \* len(res.Events)
  idx           \* the i of the loop over res.Events

progVars ==
  << commands, wcommands, progress, sent, read, closed, lpc, tpc, tval, ticks,
     nEvents, idx >>

VARIABLES
  ppc,          \* where the caller of packEventID and Span.event is
  wid,          \* the EventID handed to packEventID, as limbs
  packed,       \* the five bytes packEventID returned
  unpacked      \* the EventID Span.event returned, as limbs

packVars == << ppc, wid, packed, unpacked >>

VARIABLES
  ww,           \* where MainWindow.Run is with its ListWindow ww, "nil" without
  lw,           \* the fields of the ListWindow
  steps,        \* events handled in the current loop of Layout
  confirmed     \* what the last call of Confirmed that found done set did

listVars == << ww, lw, steps, confirmed >>

auxVars == << packVars, listVars >>

NoTrace == [ none |-> TRUE ]

\* the empty map
EmptyMap == [ k \in {} |-> 0 ]

\* the sequential pass's view of the state
Cur ==
  [ events |-> events, gs |-> gsByID, ps |-> psByID, gc |-> gc, stw |-> stw,
    lastSyscall |-> lastSyscall, inMarkAssist |-> inMarkAssist ]

(***************************************************************************)
(* The switch on ev.Type of the main loop.  Its result names what follows: *)
(* "span" (fall through to the code after the switch, with gid, state and  *)
(* pState set), "continue", "error" (return nil, err) or "panic".          *)
(***************************************************************************)
SwitchBase(s) ==
  [ act |-> "span", gid |-> 0, state |-> stateNone, pState |-> pNone,
    gs |-> s.gs, gc |-> s.gc, stw |-> s.stw, lastSyscall |-> s.lastSyscall,
    inMarkAssist |-> s.inMarkAssist, err |-> "" ]

\* getG(gid).function = res.PCs[stack[0]].Fn, when ev.Args[1] names a stack
SetFunction(gs, gid, stkID, stack) ==
  IF stkID # 0 /\ Len(stack) # 0
    THEN [ getG(gs, gid) EXCEPT ![gid].function = PCs[stack[1]] ]
    ELSE gs

\* case trace.EvGoCreate
CaseGoCreate(b, s, ev, evID) ==
  [ b EXCEPT
      !.gs = SetFunction(
               IF ev.G # 0 THEN addEventToCurrentSpan(s.gs, ev.G, evID) ELSE s.gs,
               ev.Args[1], ev.Args[2], StackOf(ev.Args[2])),
      !.gid = ev.Args[1],
      !.state = stateCreated ]

\* EvGoStart that ignores the mark assist set
\* the start of any goroutine is an assist while some goroutine assists
StartStateAnyAssist(inAssist, gid) ==
  IF inAssist # {} THEN stateGCMarkAssist ELSE stateActive

StartStateNoAssist(inAssist, gid) == stateActive

\* the state an EvGoStart gives goroutine gid
StartState(inAssist, gid) ==
  IF gid \in inAssist THEN stateGCMarkAssist ELSE stateActive

\* case trace.EvGoStartLabel: the state chosen by the label
LabelState(label) ==
  CASE label = "GC (dedicated)" -> stateGCDedicated
    [] label = "GC (idle)" -> stateGCIdle
    [] OTHER -> stateActive

\* res.Strings[id]
StringOf(id) == IF id \in DOMAIN Strings THEN Strings[id] ELSE ""

\* the goroutine-stopping cases whose state does not depend on the goroutine
StopState(type) ==
  CASE type = "EvGoStop" -> stateStuck
    [] type = "EvGoEnd" -> stateDone
    [] type = "EvGoSched" -> stateInactive
    [] type = "EvGoSleep" -> stateInactive
    [] type = "EvGoPreempt" -> stateReady
    [] type = "EvGoSysBlock" -> stateBlockedSyscall
    [] type \in BlockTypes -> evTypeToState[type]

\* case trace.EvGoBlock and case trace.EvGoWaiting
BlockState(type, fn) ==
  IF blockedIsInactive(fn)
    THEN stateInactive
    ELSE IF type = "EvGoBlock" THEN evTypeToState[type] ELSE stateBlocked

\* closing the last span only while it is still open
CloseLastOpen(spans, ts) ==
  IF Len(spans) = 0 \/ spans[Len(spans)].end # 0
    THEN [ ok |-> FALSE, spans |-> spans ]
    ELSE [ ok |-> TRUE, spans |-> [ spans EXCEPT ![Len(spans)].end = ts ] ]

\* gc[len(gc)-1].end = ev.Ts; indexing an empty slice panics
CloseLast(spans, ts) ==
  IF Len(spans) = 0
    THEN [ ok |-> FALSE, spans |-> spans ]
    ELSE [ ok |-> TRUE, spans |-> [ spans EXCEPT ![Len(spans)].end = ts ] ]

\* the end of a collection also ends every mark assist
CaseGCDoneEndsAssists(b, r) ==
  IF r.ok
    THEN [ b EXCEPT !.act = "continue", !.gc = r.spans, !.inMarkAssist = {} ]
    ELSE [ b EXCEPT !.act = "panic", !.err = "index out of range" ]

\* case trace.EvGCDone
CaseGCDone(b, r) ==
  IF r.ok
    THEN [ b EXCEPT !.act = "continue", !.gc = r.spans ]
    ELSE [ b EXCEPT !.act = "panic", !.err = "index out of range" ]

\* case trace.EvGCSTWDone
CaseGCSTWDone(b, r) ==
  IF r.ok
    THEN [ b EXCEPT !.act = "continue", !.stw = r.spans ]
    ELSE [ b EXCEPT !.act = "panic", !.err = "index out of range" ]

\* only the first syscall stack of a goroutine is recorded
SetLastSyscallOnce(ls, gid, stkID) ==
  IF gid \in DOMAIN ls THEN ls ELSE ls @@ (gid :> stkID)

\* lastSyscall[ev.G] = ev.StkID
SetLastSyscall(ls, gid, stkID) ==
  [ k \in DOMAIN ls \cup {gid} |-> IF k = gid THEN stkID ELSE ls[k] ]

SwitchOn(b, s, ev, evID, t) ==
  CASE t = "EvGoCreate" -> CaseGoCreate(b, s, ev, evID)
    [] t = "EvGoStart" ->
         [ b EXCEPT !.gid = ev.G, !.pState = pRunG,
                    !.state = StartState(s.inMarkAssist, ev.G) ]
    [] t = "EvGoStartLabel" ->
         [ b EXCEPT !.gid = ev.G, !.pState = pRunG,
                    !.state = LabelState(StringOf(ev.Args[3])) ]
    [] t \in { "EvGoStop", "EvGoEnd", "EvGoSched", "EvGoSleep",
               "EvGoPreempt", "EvGoSysBlock" } \cup BlockTypes ->
         [ b EXCEPT !.gid = ev.G, !.pState = pStopG, !.state = StopState(t) ]
    [] t = "EvGoBlock" ->
         [ b EXCEPT !.gid = ev.G, !.pState = pStopG,
                    !.state = BlockState(t, FunctionOf(s.gs, ev.G)) ]
    [] t = "EvGoWaiting" ->
         [ b EXCEPT !.gid = ev.G,
                    !.state = BlockState(t, FunctionOf(s.gs, ev.G)) ]
    [] t = "EvGoUnblock" ->
         [ b EXCEPT !.gs = addEventToCurrentSpan(s.gs, ev.G, evID),
                    !.gid = ev.Args[1], !.state = stateReady ]
    [] t = "EvGoSysCall" ->
         [ b EXCEPT !.act = "continue",
                    !.lastSyscall = SetLastSyscall(s.lastSyscall, ev.G, ev.StkID),
                    !.gs = addEventToCurrentSpan(s.gs, ev.G, evID) ]
    [] t = "EvGoInSyscall" ->
         [ b EXCEPT !.gid = ev.G, !.state = stateBlockedSyscall ]
    [] t = "EvGoSysExit" ->
         [ b EXCEPT !.gid = ev.G, !.state = stateReady ]
    [] t \in ProcTypes -> [ b EXCEPT !.act = "continue" ]
    [] t = "EvGCMarkAssistStart" ->
         [ b EXCEPT !.gid = ev.G, !.state = stateGCMarkAssist,
                    !.inMarkAssist = s.inMarkAssist \cup {ev.G} ]
    [] t = "EvGCMarkAssistDone" ->
         [ b EXCEPT !.gid = ev.G, !.state = stateActive,
                    !.inMarkAssist = s.inMarkAssist \ {ev.G} ]
    [] t = "EvGCSweepStart" ->
         [ b EXCEPT !.gid = ev.G, !.state = stateGCSweep ]
    [] t = "EvGCSweepDone" ->
         [ b EXCEPT !.gid = ev.G, !.state = stateActive ]
    [] t = "EvGCStart" ->
         [ b EXCEPT !.act = "continue",
                    !.gc = Append(s.gc, NewSpan(stateActive, evID)) ]
    [] t = "EvGCSTWStart" ->
         [ b EXCEPT !.act = "continue",
                    !.stw = Append(s.stw, NewSpan(stateActive, evID)) ]
    [] t = "EvGCDone" -> CaseGCDone(b, CloseLast(s.gc, ev.Ts))
    [] t = "EvGCSTWDone" -> CaseGCSTWDone(b, CloseLast(s.stw, ev.Ts))
    [] t \in { "EvHeapAlloc", "EvHeapGoal", "EvGomaxprocs", "EvCPUSample" }
              \cup UserTaskTypes ->
         [ b EXCEPT !.act = "continue" ]
    [] t = "EvUserLog" ->
         [ b EXCEPT !.act = "continue",
                    !.gs = addEventToCurrentSpan(s.gs, ev.G, evID) ]
    [] OTHER ->
         [ b EXCEPT !.act = "error", !.err = "unsupported trace event" ]

\* the switch with a default that skips the event
SwitchSkipsUnknown(s, ev, evID) ==
  IF ev.Type \in UnsupportedTypes
    THEN [ SwitchBase(s) EXCEPT !.act = "continue" ]
    ELSE SwitchOn(SwitchBase(s), s, ev, evID, ev.Type)

\* switch ev.Type
Switch(s, ev, evID) == SwitchOn(SwitchBase(s), s, ev, evID, ev.Type)

(***************************************************************************)
(* The code after the switch: the transition check, the new span of the    *)
(* goroutine and the span of the processor.                                *)
(***************************************************************************)
\* the goroutine that existed when tracing began: its first span is exempt
\* the exception made for every EvGoWaiting, whatever the spans
TraceStartCarveOutAnyWaiting(spans, type) == type = "EvGoWaiting"

TraceStartCarveOut(spans, type) ==
  Len(spans) = 1 /\ type = "EvGoWaiting" /\ spans[1].state = stateInactive

\* the check with the carve-out widened to every first span
IllegalTransitionAnyFirst(spans, type, state) ==
  /\ debug
  /\ Len(spans) > 1
  /\ ~ legalStateTransitions(spans[Len(spans)].state, state)

\* the check switched off
IllegalTransitionOff(spans, type, state) == FALSE

\* if debug: does moving the goroutine with these spans to state panic?
IllegalTransition(spans, type, state) ==
  /\ debug
  /\ Len(spans) > 0
  /\ ~ TraceStartCarveOut(spans, type)
  /\ ~ legalStateTransitions(spans[Len(spans)].state, state)

\* a processor span carrying the goroutine's state
ProcessorSpanOfG(state, evID) == NewSpan(state, evID)

\* Span{state: stateRunningG, event_: packEventID(EventID(evID))}
ProcessorSpan(state, evID) == NewSpan(stateRunningG, evID)

\* the state after a failure: what had been done stays, nothing is returned
Failed(s, kind, why) ==
  [ events |-> s.events, gs |-> s.gs, ps |-> s.ps, gc |-> s.gc,
    stw |-> s.stw, lastSyscall |-> s.lastSyscall,
    inMarkAssist |-> s.inMarkAssist, pc |-> kind, err |-> why ]

\* case pStopG: p.spans[len(p.spans)-1].end = ev.Ts, on the map ps1 = getP's
\* the stop closes the last span of every processor that has one
StopGEverywhere(s, ps1, pid, n, ts) ==
  IF n = 0
    THEN Failed([ s EXCEPT !.ps = ps1 ], "panic", "index out of range")
    ELSE [ s EXCEPT !.ps =
             [ q \in DOMAIN ps1 |->
                 IF Len(ps1[q].spans) = 0
                   THEN ps1[q]
                   ELSE [ ps1[q] EXCEPT !.spans[Len(ps1[q].spans)].end = ts ] ] ]

\* the stop closes the processor's first span instead of its last
StopGFirst(s, ps1, pid, n, ts) ==
  IF n = 0
    THEN Failed([ s EXCEPT !.ps = ps1 ], "panic", "index out of range")
    ELSE [ s EXCEPT !.ps = [ ps1 EXCEPT ![pid].spans[1].end = ts ] ]

StopG(s, ps1, pid, n, ts) ==
  IF n = 0
    THEN Failed([ s EXCEPT !.ps = ps1 ], "panic", "index out of range")
    ELSE [ s EXCEPT !.ps = [ ps1 EXCEPT ![pid].spans[n].end = ts ] ]

\* case pRunG: p.spans = append(p.spans, Span{state: stateRunningG, ...})
RunG(s, ps1, pid, state, evID) ==
  [ s EXCEPT !.ps = [ ps1 EXCEPT ![pid].spans =
                        Append(@, ProcessorSpan(state, evID)) ] ]

\* switch pState
ProcessorStep(s, ev, evID, state, pState) ==
  CASE pState = pRunG -> RunG(s, getP(s.ps, ev.P), ev.P, state, evID)
    [] pState = pStopG ->
         StopG(s, getP(s.ps, ev.P), ev.P, Len(getP(s.ps, ev.P)[ev.P].spans), ev.Ts)
    [] OTHER -> s

\* the state of the pass once the switch has run
AfterSwitch(s, r) ==
  [ events |-> s.events, gs |-> r.gs, ps |-> s.ps, gc |-> r.gc,
    stw |-> r.stw, lastSyscall |-> r.lastSyscall,
    inMarkAssist |-> r.inMarkAssist, pc |-> "seq", err |-> "" ]

\* res.Events[s.event()].StkID = lastSyscall[ev.G], for an EvGoSysBlock
WithSyscallStack(ev, ls) ==
  IF ev.Type = "EvGoSysBlock"
    THEN [ ev EXCEPT !.StkID = LastSyscallOf(ls, ev.G) ]
    ELSE ev

\* getG(gid).spans = append(getG(gid).spans, s); gs0 is the map getG left
AppendSpan(s1, gs0, ev, evID, gid, state) ==
  [ s1 EXCEPT
      !.events = Append(s1.events, WithSyscallStack(ev, s1.lastSyscall)),
      !.gs = [ gs0 EXCEPT ![gid].spans = Append(@, NewSpan(state, evID)) ] ]

\* lines 665-698: the check, the goroutine's span, the processor's span
SpanStep(s1, gs0, ev, evID, r) ==
  IF IllegalTransition(gs0[r.gid].spans, ev.Type, r.state)
    THEN Failed([ s1 EXCEPT !.gs = gs0 ], "panic", "illegal state transition")
    ELSE IF ev.Type = "EvGoSysBlock" /\ debug /\ ev.StkID # 0
      THEN Failed([ s1 EXCEPT !.gs = gs0 ], "panic", "expected zero stack ID")
      ELSE ProcessorStep(AppendSpan(s1, gs0, ev, evID, r.gid, r.state),
                         ev, evID, r.state, r.pState)

\* what follows the switch, by its outcome r
Dispatch(s1, ev, evID, r) ==
  CASE r.act = "error" -> Failed(s1, "error", r.err)
    [] r.act = "panic" -> Failed(s1, "panic", r.err)
    [] r.act = "continue" -> [ s1 EXCEPT !.events = Append(s1.events, ev) ]
    [] OTHER -> SpanStep(s1, getG(s1.gs, r.gid), ev, evID, r)

\* the switch and what follows it
StepOn(s, ev, evID, r) == Dispatch(AfterSwitch(s, r), ev, evID, r)

\* one iteration of the main loop over res.Events
Step(s, ev) == StepOn(s, ev, Len(s.events), Switch(s, ev, Len(s.events)))

(***************************************************************************)
(* Finalization of one goroutine (the body of the goroutine that loadTrace *)
(* starts for every entry of gsByID).                                      *)
(***************************************************************************)
\* does the stack hold a frame of function fn?
HasFrame(pcs, stack, fn) == \E i \in 1..Len(stack) : pcs[stack[i]] = fn

\* the classifier looking at the stack only, whatever the state
applyPatternsStackOnly(s, pcs, stack) ==
  IF HasFrame(pcs, stack, "sync.(*Once).doSlow")
    THEN [ s EXCEPT !.state = stateBlockedSyncOnce ]
    ELSE IF HasFrame(pcs, stack, "runtime.gcStart")
      THEN [ s EXCEPT !.state = stateBlockedSyncTriggeringGC ]
      ELSE s

\* the stack-pattern classifier: narrows the state of a span by its stack
applyPatterns(s, pcs, stack) ==
  IF s.state = stateBlockedSync /\ HasFrame(pcs, stack, "sync.(*Once).doSlow")
    THEN [ s EXCEPT !.state = stateBlockedSyncOnce ]
    ELSE IF s.state = stateBlockedSync /\ HasFrame(pcs, stack, "runtime.gcStart")
      THEN [ s EXCEPT !.state = stateBlockedSyncTriggeringGC ]
      ELSE s

\* the condition with the depth of the stack compared to at, not to at + 1
MoveAtGoesOnOnePast(at, pcs, stack) ==
  /\ at % 256 < Len(stack)
  /\ at < 255
  /\ HasRuntimePrefix(pcs[stack[at + 1]])

\* the condition of the loop that moves s.at out of the runtime; at is a uint8
MoveAtGoesOn(at, pcs, stack) ==
  /\ (at + 1) % 256 < Len(stack)
  /\ at < 255
  /\ HasRuntimePrefix(pcs[stack[at + 1]])

\* for ... { s.at++ }: the first offset from at on at which the loop stops
MoveAt(at, pcs, stack) ==
  CHOOSE k \in at..255 :
    /\ ~ MoveAtGoesOn(k, pcs, stack)
    /\ \A j \in at..(k - 1) : MoveAtGoesOn(j, pcs, stack)

\* the end of a span taken from the end of its successor
SuccessorEndOf(spans, i, evs) == spans[i + 1].end

\* the end of a span that has a successor: res.Events[g.spans[i+1].event()].Ts
SuccessorStart(spans, i, evs) == EventAt(evs, event(spans[i + 1])).Ts

\* the loop leaving the end of every span as it was
WithEndLeftOpen(spans, i, evs) == spans[i]

\* s.end = res.Events[g.spans[i+1].event()].Ts unless s is the last span
WithEnd(spans, i, evs) ==
  IF i # Len(spans)
    THEN [ spans[i] EXCEPT !.end = SuccessorStart(spans, i, evs) ]
    ELSE spans[i]

\* the span with its offset moved out of the runtime
WithAt(s, stack) == [ s EXCEPT !.at = MoveAt(s.at, PCs, stack) ]

\* lines 713-719 for span s
Classified(s, stack) == WithAt(applyPatterns(s, PCs, stack), stack)

\* the stack of the event that opened span s
SpanStack(s, evs) == StackOf(EventAt(evs, event(s)).StkID)

\* one iteration of `for i, s := range g.spans` (i counts from 1 here)
FinSpan(spans, i, evs) ==
  [ spans EXCEPT ![i] = Classified(WithEnd(spans, i, evs), SpanStack(spans[i], evs)) ]

\* a last span that is not Done is ended where it starts
FinTailEndsAtStart(spans, evs) ==
  IF Len(spans) # 0
    THEN IF spans[Len(spans)].state = stateDone
           THEN SubSeq(spans, 1, Len(spans) - 1)
           ELSE [ spans EXCEPT ![Len(spans)].end =
                    EventAt(evs, event(spans[Len(spans)])).Ts ]
    ELSE spans

\* the tail that keeps a last span in stateDone
FinTailKeepDone(spans, evs) ==
  IF Len(spans) # 0
    THEN [ spans EXCEPT ![Len(spans)].end = evs[Len(evs)].Ts ]
    ELSE spans

\* after the loop: drop a last span in stateDone, else end it with the trace
FinTail(spans, evs) ==
  IF Len(spans) # 0
    THEN IF spans[Len(spans)].state = stateDone
           THEN SubSeq(spans, 1, Len(spans) - 1)
           ELSE [ spans EXCEPT ![Len(spans)].end = evs[Len(evs)].Ts ]
    ELSE spans

\* the whole loop: iteration i reads of its successor only the event
\* reference, which no iteration writes
FinLoop(spans, evs) ==
  [ i \in 1..Len(spans) |-> FinSpan(spans, i, evs)[i] ]

\* the whole finalization unit of a goroutine with these spans
FinalizeUnit(spans, evs) == FinTail(FinLoop(spans, evs), evs)

(***************************************************************************)
(* Assembly of the Trace.                                                  *)
(***************************************************************************)
\* the comparison turned round: the ids in descending order
SortedIDsDescending(ids) ==
  [ i \in 1..Cardinality(ids) |->
      CHOOSE x \in ids : Cardinality({ y \in ids : y > x }) = i - 1 ]

\* sort.Slice by id: the ids in ascending order
SortedIDs(ids) ==
  [ i \in 1..Cardinality(ids) |->
      CHOOSE x \in ids : Cardinality({ y \in ids : y < x }) = i - 1 ]

\* every goroutine of the map is kept
RetainedGsAll(gs) == DOMAIN gs

\* the goroutines loadTrace keeps: those with a span
RetainedGs(gs) == { g \in DOMAIN gs : Len(gs[g].spans) # 0 }

\* the goroutines of the model in the order gids
TraceGs(gs, gids) ==
  [ i \in 1..Len(gids) |->
      [ id |-> gids[i], function |-> gs[gids[i]].function,
        spans |-> gs[gids[i]].spans, events |-> gs[gids[i]].events ] ]

\* the processors of the model in the order pids
TracePs(ps, pids) ==
  [ i \in 1..Len(pids) |-> [ id |-> pids[i], spans |-> ps[pids[i]].spans ] ]

\* &Trace{gs: gs, ps: ps, gc: gc, stw: stw, ParseResult: res}
MakeTrace(gs, ps, gcSpans, stwSpans) ==
  [ gs |-> TraceGs(gs, SortedIDs(RetainedGs(gs))),
    ps |-> TracePs(ps, SortedIDs(DOMAIN ps)),
    gc |-> gcSpans, stw |-> stwSpans ]

(***************************************************************************)
(* The event source: the next event of the stream, drawn from bounded sets.*)
(* Args holds ev.Args[0], ev.Args[1], ev.Args[2] at positions 1, 2, 3.     *)
(***************************************************************************)
Ev(type, ts, g, p, a0, a1, a2, stk) ==
  [ Type |-> type, Ts |-> ts, G |-> g, P |-> p, Args |-> <<a0, a1, a2>>,
    StkID |-> stk ]

\* the timestamp of the last event so far
LastTs == IF Len(events) = 0 THEN 0 ELSE events[Len(events)].Ts

\* timestamps count from the first event and never decrease within the stream
NextTs == IF Len(events) = 0 THEN {0} ELSE LastTs .. (LastTs + MaxDt)

\* stack ids a goroutine's creation can carry: none, main.main, runtime.bgsweep
CreateStacks == { 0, 3, 4 }
\* stack ids a sync block can carry: none, the sync.Once path, the gcStart path
SyncStacks == { 0, 1, 2 }
\* stack ids a syscall can carry: none, syscall.Read
SyscallStacks == { 0, 5 }

\* events of these types that name a goroutine only
EvG(types, gids) ==
  { Ev(t, ts, g, 0, 0, 0, 0, 0) : t \in types, ts \in NextTs, g \in gids }

\* events of these types that name a goroutine and a processor
EvGP(types, stks) ==
  UNION { { Ev(t, ts, g, p, 0, 0, 0, k) : t \in types, ts \in NextTs, g \in UserGids }
          : p \in Pids, k \in stks }

\* events of these types that name nothing
EvPlain(types) == { Ev(t, ts, 0, 0, 0, 0, 0, 0) : t \in types, ts \in NextTs }

\* the event types whose case is a bare `continue`
IgnoredTypes ==
  ProcTypes \cup UserTaskTypes
    \cup { "EvHeapAlloc", "EvHeapGoal", "EvGomaxprocs", "EvCPUSample" }

\* how many events of the stream so far the loader skipped unread
Ignored == Cardinality({ i \in 1..Len(events) : events[i].Type \in IgnoredTypes })

\* events of these types, which the loader skips unread
EvIgnored(types) ==
  IF Ignored < MaxIgnored THEN EvPlain(types) ELSE {}

\* take the step of the main loop for event ev
Consume(ev) ==
  \E n \in { Step(Cur, ev) } :
    /\ events' = n.events
    /\ gsByID' = n.gs
    /\ psByID' = n.ps
    /\ gc' = n.gc
    /\ stw' = n.stw
    /\ lastSyscall' = n.lastSyscall
    /\ inMarkAssist' = n.inMarkAssist
    /\ pc' = n.pc
    /\ err' = n.err
    /\ trace' = trace


(***************************************************************************)
(* The sequential pass, one action per case of the switch.                 *)
(***************************************************************************)
\* the main loop takes one more event out of the set E
Feed(E) ==
  /\ pc = "seq"
  /\ Len(events) < MaxEvents
  /\ \E ev \in E : Consume(ev)
  /\ UNCHANGED finVars
  /\ UNCHANGED << progVars, auxVars >>

EvGoCreate ==
  Feed({ Ev("EvGoCreate", ts, g, 0, a0, a1, 0, 0) :
           ts \in NextTs, g \in Gids, a0 \in UserGids, a1 \in CreateStacks })

EvGoStart == Feed(EvGP({"EvGoStart"}, {0}))

EvGoStartLabel ==
  Feed({ Ev("EvGoStartLabel", ts, g, p, 0, 0, a2, 0) :
           ts \in NextTs, g \in UserGids, p \in Pids, a2 \in DOMAIN Strings })

EvGoStop == Feed(EvGP({"EvGoStop"}, {0}))

EvGoEnd == Feed(EvGP({"EvGoEnd"}, {0}))

EvGoSched == Feed(EvGP({"EvGoSched"}, {0}))

EvGoSleep == Feed(EvGP({"EvGoSleep"}, {0}))

EvGoPreempt == Feed(EvGP({"EvGoPreempt"}, {0}))

EvGoBlockReason ==
  Feed(EvGP(BlockTypes \ {"EvGoBlockSync"}, {0})
         \cup EvGP({"EvGoBlockSync"}, SyncStacks))

EvGoBlock == Feed(EvGP({"EvGoBlock"}, {0}))

EvGoWaiting == Feed(EvG({"EvGoWaiting"}, UserGids))

EvGoUnblock ==
  Feed({ Ev("EvGoUnblock", ts, g, 0, a0, 0, 0, 0) :
           ts \in NextTs, g \in Gids, a0 \in UserGids })

EvGoSysCall ==
  Feed({ Ev("EvGoSysCall", ts, g, 0, 0, 0, 0, k) :
           ts \in NextTs, g \in UserGids, k \in SyscallStacks })

EvGoSysBlock == Feed(EvGP({"EvGoSysBlock"}, SyscallStacks))

EvGoInSyscall == Feed(EvG({"EvGoInSyscall"}, UserGids))

EvGoSysExit == Feed(EvG({"EvGoSysExit"}, UserGids))

EvProc == Feed(EvIgnored(ProcTypes))

EvGCMarkAssistStart == Feed(EvG({"EvGCMarkAssistStart"}, UserGids))

EvGCMarkAssistDone == Feed(EvG({"EvGCMarkAssistDone"}, UserGids))

EvGCSweepStart == Feed(EvG({"EvGCSweepStart"}, Gids))

EvGCSweepDone == Feed(EvG({"EvGCSweepDone"}, Gids))

EvGCStart == Feed(EvPlain({"EvGCStart"}))

EvGCSTWStart == Feed(EvPlain({"EvGCSTWStart"}))

EvGCDone == Feed(EvPlain({"EvGCDone"}))

EvGCSTWDone == Feed(EvPlain({"EvGCSTWDone"}))

EvHeapAlloc == Feed(EvIgnored({"EvHeapAlloc"}))

EvHeapGoal == Feed(EvIgnored({"EvHeapGoal"}))

EvGomaxprocs == Feed(EvIgnored({"EvGomaxprocs"}))

EvUserTask == Feed(EvIgnored(UserTaskTypes))

EvUserLog == Feed(EvG({"EvUserLog"}, Gids))

EvCPUSample == Feed(EvIgnored({"EvCPUSample"}))

EvUnsupported == Feed(EvPlain(UnsupportedTypes))

(***************************************************************************)
(* After the main loop.                                                    *)
(***************************************************************************)
\* every goroutine's spans after its finalization unit has run
FinalizeAll(gs, evs) ==
  [ g \in DOMAIN gs |-> [ gs[g] EXCEPT !.spans = FinalizeUnit(@, evs) ] ]

\* lines 701-767 as a whole: every goroutine's unit runs, wg.Wait() returns,
\* the goroutines and processors are collected and sorted, the Trace returned
Finish ==
  /\ pc = "seq"
  /\ gsByID' = FinalizeAll(gsByID, events)
  /\ trace' = MakeTrace(FinalizeAll(gsByID, events), psByID, gc, stw)
  /\ pc' = "done"
  /\ UNCHANGED << events, psByID, gc, stw, lastSyscall, inMarkAssist, err >>
  /\ UNCHANGED finVars
  /\ UNCHANGED << progVars, auxVars >>

(***************************************************************************)
(* The same, step by step: the event source delivers a fixed stream, the   *)
(* driver starts one goroutine per entry of gsByID, bounded by sem, each   *)
(* runs its loop one span at a time, and the driver waits for all.         *)
(***************************************************************************)
\* the six events of one goroutine that runs, blocks on the network and ends
ScriptRunBlockEnd ==
  << Ev("EvGoCreate", 0, 0, 0, 5, 0, 0, 0),
     Ev("EvGoStart", 1, 5, 0, 0, 0, 0, 0),
     Ev("EvGoBlockNet", 2, 5, 0, 0, 0, 0, 0),
     Ev("EvGoUnblock", 3, 0, 0, 5, 0, 0, 0),
     Ev("EvGoStart", 4, 5, 0, 0, 0, 0, 0),
     Ev("EvGoEnd", 5, 5, 0, 0, 0, 0, 0) >>

\* two goroutines on two processors, one blocking in sync.Once
ScriptTwoGoroutines ==
  << Ev("EvGoCreate", 0, 0, 0, 1, 3, 0, 0),
     Ev("EvGoStart", 1, 1, 0, 0, 0, 0, 0),
     Ev("EvGoCreate", 2, 1, 0, 2, 3, 0, 3),
     Ev("EvGoStart", 2, 2, 1, 0, 0, 0, 0),
     Ev("EvGoBlockSync", 3, 1, 0, 0, 0, 0, 1),
     Ev("EvGoUnblock", 4, 2, 1, 1, 0, 0, 3),
     Ev("EvGoEnd", 5, 2, 1, 0, 0, 0, 0) >>

\* a syscall that blocks and returns
ScriptSyscall ==
  << Ev("EvGoCreate", 0, 0, 0, 1, 3, 0, 0),
     Ev("EvGoStart", 1, 1, 0, 0, 0, 0, 0),
     Ev("EvGoSysCall", 2, 1, 0, 0, 0, 0, 5),
     Ev("EvGoSysBlock", 3, 1, 0, 0, 0, 0, 0),
     Ev("EvGoSysExit", 4, 1, 0, 0, 0, 0, 0),
     Ev("EvGoStart", 5, 1, 0, 0, 0, 0, 0) >>

\* three goroutines, more than the pool may hold, one of them already over
ScriptThreeGoroutines ==
  << Ev("EvGoCreate", 0, 0, 0, 1, 4, 0, 0),
     Ev("EvGoCreate", 0, 0, 0, 2, 3, 0, 0),
     Ev("EvGoCreate", 1, 0, 0, 3, 3, 0, 0),
     Ev("EvGoStart", 1, 2, 0, 0, 0, 0, 0),
     Ev("EvGoEnd", 2, 2, 0, 0, 0, 0, 0),
     Ev("EvGoWaiting", 2, 1, 0, 0, 0, 0, 0),
     Ev("EvGoStart", 3, 3, 1, 0, 0, 0, 0),
     Ev("EvGCMarkAssistStart", 3, 3, 0, 0, 0, 0, 0),
     Ev("EvGoBlockSync", 4, 3, 1, 0, 0, 0, 2) >>

\* two goroutines, named in descending order, each in a syscall that blocks
ScriptTwoSyscalls ==
  << Ev("EvGoStart", 0, 2, 1, 0, 0, 0, 0),
     Ev("EvGoStart", 0, 1, 0, 0, 0, 0, 0),
     Ev("EvGoSysCall", 1, 1, 0, 0, 0, 0, 5),
     Ev("EvGoSysCall", 1, 2, 1, 0, 0, 0, 3),
     Ev("EvGoSysBlock", 2, 1, 0, 0, 0, 0, 0),
     Ev("EvGoSysBlock", 3, 2, 1, 0, 0, 0, 0),
     Ev("EvGoSysExit", 4, 1, 0, 0, 0, 0, 0) >>

\* a trace that starts late: a goroutine seen only through a log message,
\* one seen only when it ends, and one that is left running
ScriptLateStart ==
  << Ev("EvGoStart", 1, 3, 0, 0, 0, 0, 0),
     Ev("EvUserLog", 1, 7, 0, 0, 0, 0, 0),
     Ev("EvGoEnd", 2, 3, 0, 0, 0, 0, 0),
     Ev("EvGoEnd", 3, 4, 0, 0, 0, 0, 0),
     Ev("EvGoStart", 4, 6, 1, 0, 0, 0, 0),
     Ev("EvHeapAlloc", 5, 0, 1, 0, 0, 0, 0) >>

\* a goroutine preempted in mark assist and started again, before and after
\* the assist is done, while another goroutine is started
ScriptMarkAssist ==
  << Ev("EvGoStart", 0, 1, 0, 0, 0, 0, 0),
     Ev("EvGCMarkAssistStart", 1, 1, 0, 0, 0, 0, 0),
     Ev("EvGoPreempt", 2, 1, 0, 0, 0, 0, 0),
     Ev("EvGoStart", 3, 2, 1, 0, 0, 0, 0),
     Ev("EvGoStart", 4, 1, 0, 0, 0, 0, 0),
     Ev("EvGCMarkAssistDone", 5, 1, 0, 0, 0, 0, 0),
     Ev("EvGoPreempt", 6, 1, 0, 0, 0, 0, 0),
     Ev("EvGoStart", 7, 1, 0, 0, 0, 0, 0) >>

\* a goroutine first seen when it yields, then reported waiting twice
ScriptWaitingTwice ==
  << Ev("EvGoStart", 0, 2, 0, 0, 0, 0, 0),
     Ev("EvGoSched", 1, 1, 0, 0, 0, 0, 0),
     Ev("EvGoWaiting", 2, 1, 0, 0, 0, 0, 0),
     Ev("EvGoWaiting", 3, 1, 0, 0, 0, 0, 0) >>

\* a goroutine that blocks on a channel send inside a sync.Once, then on the
\* sync.Once itself, then on a mutex in main.main
ScriptBlockedInOnce ==
  << Ev("EvGoStart", 0, 1, 0, 0, 0, 0, 0),
     Ev("EvGoBlockSend", 1, 1, 0, 0, 0, 0, 1),
     Ev("EvGoUnblock", 2, 0, 0, 1, 0, 0, 0),
     Ev("EvGoStart", 3, 1, 0, 0, 0, 0, 0),
     Ev("EvGoBlockSync", 4, 1, 0, 0, 0, 0, 1),
     Ev("EvGoUnblock", 5, 0, 0, 1, 0, 0, 0),
     Ev("EvGoStart", 6, 1, 0, 0, 0, 0, 0),
     Ev("EvGoBlockSync", 7, 1, 0, 0, 0, 0, 3) >>

\* a goroutine whose events carry a stack of runtime frames only, stacks
\* deeper than the offset reaches, no stack, and stacks that leave the runtime
\* after no frame and after one
ScriptDeepStacks ==
  << Ev("EvGoStart", 0, 1, 0, 0, 0, 0, 4),
     Ev("EvGoBlockSend", 1, 1, 0, 0, 0, 0, 6),
     Ev("EvGoUnblock", 2, 0, 0, 1, 0, 0, 3),
     Ev("EvGoStart", 3, 1, 0, 0, 0, 0, 0),
     Ev("EvGoBlockRecv", 4, 1, 0, 0, 0, 0, 7),
     Ev("EvGoUnblock", 5, 0, 0, 1, 0, 0, 0),
     Ev("EvGoStart", 6, 1, 0, 0, 0, 0, 1) >>

Scripts ==
  { ScriptRunBlockEnd, ScriptTwoGoroutines, ScriptSyscall,
    ScriptThreeGoroutines, ScriptTwoSyscalls, ScriptLateStart,
    ScriptMarkAssist, ScriptWaitingTwice, ScriptBlockedInOnce,
    ScriptDeepStacks }

\* the main loop takes the next event of the script
ScriptFeed ==
  /\ pc = "seq"
  /\ Len(events) < Len(script)
  /\ Consume(script[Len(events) + 1])
  /\ UNCHANGED finVars
  /\ UNCHANGED << progVars, auxVars >>

\* the main loop is over: make(chan struct{}, GOMAXPROCS), var wg
LoopEnd ==
  /\ pc = "seq"
  /\ script # <<>>
  /\ Len(events) = Len(script)
  /\ pc' = "finalize"
  /\ unit' = [ g \in DOMAIN gsByID |-> [ pc |-> "idle", i |-> 0 ] ]
  /\ UNCHANGED << events, gsByID, psByID, gc, stw, lastSyscall, inMarkAssist,
                  err, trace >>
  /\ UNCHANGED << script, gomaxprocs, sem, wg, rangeG >>
  /\ UNCHANGED << progVars, auxVars >>

\* the goroutine a unit works on, were it to read the loop variable itself
CapturedLoopVariable(g, loopVar) == loopVar

\* g := g: the goroutine a unit works on is the one it was started for
Captured(g, loopVar) == g

\* the driver starts a unit without waiting for a free slot of the pool
SpawnUnbounded(g) ==
  /\ pc = "finalize"
  /\ unit[g].pc = "idle"
  /\ sem' = sem + 1
  /\ wg' = wg + 1
  /\ rangeG' = g
  /\ unit' = [ unit EXCEPT ![g] = [ pc |-> "loop", i |-> 1 ] ]
  /\ UNCHANGED loaderVars
  /\ UNCHANGED << script, gomaxprocs >>
  /\ UNCHANGED << progVars, auxVars >>

\* one iteration of the driver's loop: sem <- struct{}{}, wg.Add(1), go func()
Spawn(g) ==
  /\ pc = "finalize"
  /\ unit[g].pc = "idle"
  /\ sem < gomaxprocs
  /\ sem' = sem + 1
  /\ wg' = wg + 1
  /\ rangeG' = g
  /\ unit' = [ unit EXCEPT ![g] = [ pc |-> "loop", i |-> 1 ] ]
  /\ UNCHANGED loaderVars
  /\ UNCHANGED << script, gomaxprocs >>
  /\ UNCHANGED << progVars, auxVars >>

\* one iteration of the unit's loop over g.spans
UnitSpan(g) ==
  /\ pc = "finalize"
  /\ unit[g].pc = "loop"
  /\ \E tg \in { Captured(g, rangeG) } :
       /\ unit[g].i <= Len(gsByID[tg].spans)
       /\ gsByID' = [ gsByID EXCEPT ![tg].spans = FinSpan(@, unit[g].i, events) ]
  /\ unit' = [ unit EXCEPT ![g].i = @ + 1 ]
  /\ UNCHANGED << events, psByID, gc, stw, lastSyscall, inMarkAssist, pc, err,
                  trace >>
  /\ UNCHANGED << script, gomaxprocs, sem, wg, rangeG >>
  /\ UNCHANGED << progVars, auxVars >>

\* the unit's code after its loop, lines 724-734
UnitTail(g) ==
  /\ pc = "finalize"
  /\ unit[g].pc = "loop"
  /\ \E tg \in { Captured(g, rangeG) } :
       /\ unit[g].i > Len(gsByID[tg].spans)
       /\ gsByID' = [ gsByID EXCEPT ![tg].spans = FinTail(@, events) ]
  /\ unit' = [ unit EXCEPT ![g].pc = "release" ]
  /\ UNCHANGED << events, psByID, gc, stw, lastSyscall, inMarkAssist, pc, err,
                  trace >>
  /\ UNCHANGED << script, gomaxprocs, sem, wg, rangeG >>
  /\ UNCHANGED << progVars, auxVars >>

\* the unit going on without taking its token out of sem
UnitReleaseKept(g) ==
  /\ pc = "finalize"
  /\ unit[g].pc = "release"
  /\ sem' = sem
  /\ unit' = [ unit EXCEPT ![g].pc = "signal" ]
  /\ UNCHANGED loaderVars
  /\ UNCHANGED << script, gomaxprocs, wg, rangeG >>
  /\ UNCHANGED << progVars, auxVars >>

\* <-sem
UnitRelease(g) ==
  /\ pc = "finalize"
  /\ unit[g].pc = "release"
  /\ sem' = sem - 1
  /\ unit' = [ unit EXCEPT ![g].pc = "signal" ]
  /\ UNCHANGED loaderVars
  /\ UNCHANGED << script, gomaxprocs, wg, rangeG >>
  /\ UNCHANGED << progVars, auxVars >>

\* wg.Done()
UnitDone(g) ==
  /\ pc = "finalize"
  /\ unit[g].pc = "signal"
  /\ wg' = wg - 1
  /\ unit' = [ unit EXCEPT ![g].pc = "done" ]
  /\ UNCHANGED loaderVars
  /\ UNCHANGED << script, gomaxprocs, sem, rangeG >>
  /\ UNCHANGED << progVars, auxVars >>

\* the driver goes on as soon as its loop has started every unit
WaitSkipped ==
  /\ pc = "finalize"
  /\ \A g \in DOMAIN unit : unit[g].pc # "idle"
  /\ pc' = "assemble"
  /\ UNCHANGED << events, gsByID, psByID, gc, stw, lastSyscall, inMarkAssist,
                  err, trace >>
  /\ UNCHANGED finVars
  /\ UNCHANGED << progVars, auxVars >>

\* wg.Wait() returns to the driver, whose loop has started every unit
Wait ==
  /\ pc = "finalize"
  /\ \A g \in DOMAIN unit : unit[g].pc # "idle"
  /\ wg = 0
  /\ pc' = "assemble"
  /\ UNCHANGED << events, gsByID, psByID, gc, stw, lastSyscall, inMarkAssist,
                  err, trace >>
  /\ UNCHANGED finVars
  /\ UNCHANGED << progVars, auxVars >>

\* collect and sort the goroutines and processors, return the Trace
Assemble ==
  /\ pc = "assemble"
  /\ trace' = MakeTrace(gsByID, psByID, gc, stw)
  /\ pc' = "done"
  /\ UNCHANGED << events, gsByID, psByID, gc, stw, lastSyscall, inMarkAssist,
                  err >>
  /\ UNCHANGED finVars
  /\ UNCHANGED << progVars, auxVars >>

vars == << loaderVars, finVars, progVars, auxVars >>

LoaderInit ==
  /\ events = <<>>
  /\ gsByID = EmptyMap
  /\ psByID = EmptyMap
  /\ gc = <<>>
  /\ stw = <<>>
  /\ lastSyscall = EmptyMap
  /\ inMarkAssist = {}
  /\ pc = "seq"
  /\ err = ""
  /\ trace = NoTrace

FinIdle ==
  /\ script = <<>>
  /\ gomaxprocs = 1
  /\ sem = 0
  /\ wg = 0
  /\ rangeG = -1
  /\ unit = EmptyMap

\* nothing of the program around loadTrace is looked at
ProgIdle ==
  /\ commands = <<>>
  /\ wcommands = <<>>
  /\ progress = 0
  /\ sent = <<>>
  /\ read = 0
  /\ closed = FALSE
  /\ lpc = "off"
  /\ tpc = "off"
  /\ tval = 0
  /\ ticks = 0
  /\ nEvents = 0
  /\ idx = 0

\* no EventID is being packed
PackIdle ==
  /\ ppc = "off"
  /\ wid = << 0, 0, 0 >>
  /\ packed = << 0, 0, 0, 0, 0 >>
  /\ unpacked = << 0, 0, 0 >>

\* a ListWindow before SetItems
NoListWindow ==
  [ items |-> <<>>, filtered |-> <<>>, index |-> 0, done |-> FALSE,
    cancelled |-> FALSE, text |-> "", first |-> 0, count |-> 0,
    offsetPos |-> FALSE, offsetLastNeg |-> FALSE ]

\* var ww *ListWindow[*Goroutine]
ListIdle ==
  /\ ww = "nil"
  /\ lw = NoListWindow
  /\ steps = 0
  /\ confirmed = "none"

AuxIdle == PackIdle /\ ListIdle

Init == LoaderInit /\ FinIdle /\ ProgIdle /\ AuxIdle

Next ==
  \/ EvGoCreate \/ EvGoStart \/ EvGoStartLabel \/ EvGoStop \/ EvGoEnd
  \/ EvGoSched \/ EvGoSleep \/ EvGoPreempt \/ EvGoBlockReason \/ EvGoBlock
  \/ EvGoWaiting \/ EvGoUnblock \/ EvGoSysCall \/ EvGoSysBlock
  \/ EvGoInSyscall \/ EvGoSysExit \/ EvProc \/ EvGCMarkAssistStart
  \/ EvGCMarkAssistDone \/ EvGCSweepStart \/ EvGCSweepDone \/ EvGCStart
  \/ EvGCSTWStart \/ EvGCDone \/ EvGCSTWDone \/ EvHeapAlloc \/ EvHeapGoal
  \/ EvGomaxprocs \/ EvUserTask \/ EvUserLog \/ EvCPUSample \/ EvUnsupported
  \/ Finish

\* loadTrace over every bounded event stream
Spec == Init /\ [][Next]_vars

InitFin ==
  /\ LoaderInit
  /\ AuxIdle
  /\ script \in Scripts
  /\ gomaxprocs \in 1..MaxProcs
  /\ sem = 0
  /\ wg = 0
  /\ rangeG = -1
  /\ unit = EmptyMap
  /\ ProgIdle

NextFin ==
  \/ ScriptFeed
  \/ LoopEnd
  \/ \E g \in DOMAIN unit : Spawn(g)
  \/ \E g \in DOMAIN unit : UnitSpan(g)
  \/ \E g \in DOMAIN unit : UnitTail(g)
  \/ \E g \in DOMAIN unit : UnitRelease(g)
  \/ \E g \in DOMAIN unit : UnitDone(g)
  \/ Wait
  \/ Assemble

\* loadTrace over the scripted streams, with its finalization goroutines
SpecFin == InitFin /\ [][NextFin]_vars

\* the goroutine ids a script can bring up: the G and the first argument of
\* its events
UnitIDs ==
  UNION { { s[i].G : i \in DOMAIN s } \cup { s[i].Args[1] : i \in DOMAIN s } :
          s \in Scripts }

\* any step of the finalization goroutine of g
UnitStep(g) ==
  /\ g \in DOMAIN unit
  /\ UnitSpan(g) \/ UnitTail(g) \/ UnitRelease(g) \/ UnitDone(g)

\* the finalization pass under the Go scheduler: the driver and every
\* goroutine it started run on as long as they are not blocked on sem or wg
SpecFinFair ==
  /\ InitFin
  /\ [][NextFin]_vars
  /\ WF_vars(\E g \in DOMAIN unit : Spawn(g))
  /\ \A g \in UnitIDs : WF_vars(UnitStep(g))
  /\ WF_vars(Wait)
  /\ WF_vars(Assemble)

(***************************************************************************)
(* Progress reporting of the loader of cmd/gotraceui/main.go: the          *)
(* goroutine of main that calls loadTrace, the goroutine loadTrace starts  *)
(* to report how much of the file has been read, main's loop that forwards *)
(* the commands and the window's loop that takes them.  A progress value v *)
(* is held as the integer v * 2 * FileSize * nEvents, which is exact for   *)
(* every value the code computes; float32 rounding keeps their order.      *)
(***************************************************************************)
\* stat.Size(), in reads of the countingReader
FileSize == 2

\* how often the ticker fires at most
MaxTicks == 2

\* i%10000 == 0
ProgressEvery == 10000

\* commands := make(chan Command, 16)
CommandsCap == 16

\* commands: make(chan Command, 128)
WindowCap == 128

\* the numbers of events a parsed trace can have here
EventCounts == { 1, ProgressEvery + 1 }

\* float32(0.5)
Half == FileSize * nEvents

\* 1.0
One == 2 * FileSize * nEvents

\* (float32(cr.amount()) / float32(total)) / 2
ReaderProgress(amount) == amount * nEvents

\* 0.5 + (float32(i)/float32(len(res.Events)))/2
PassProgress(i) == Half + i * FileSize

Command(cmd, data) == [ cmd |-> cmd, data |-> data ]

\* the channel takes a command; sent keeps the setProgress values it took
Send(c) ==
  /\ commands' = Append(commands, c)
  /\ sent' = IF c.cmd = "setProgress" THEN Append(sent, c.data) ELSE sent

\* commands <- Command{"setState", "loadingTrace"}
SendSetState ==
  /\ lpc = "start"
  /\ Len(commands) < CommandsCap
  /\ Send(Command("setState", 0))
  /\ lpc' = "open"
  /\ UNCHANGED << wcommands, progress, read, closed, tpc, tval, ticks,
                  nEvents, idx >>
  /\ UNCHANGED << loaderVars, finVars, auxVars >>

\* os.Open, f.Stat and, if Stat succeeded, go func() { ... }()
Open ==
  /\ lpc = "open"
  /\ lpc' = "parse"
  /\ \E statOK \in BOOLEAN : tpc' = IF statOK THEN "select" ELSE "none"
  /\ UNCHANGED << commands, wcommands, progress, sent, read, closed, tval,
                  ticks, nEvents, idx >>
  /\ UNCHANGED << loaderVars, finVars, auxVars >>

\* countingReader.Read, called by the parser
Read ==
  /\ lpc = "parse"
  /\ read < FileSize
  /\ read' = read + 1
  /\ UNCHANGED << commands, wcommands, progress, sent, closed, lpc, tpc, tval,
                  ticks, nEvents, idx >>
  /\ UNCHANGED << loaderVars, finVars, auxVars >>

\* trace.Parse returns res; if done != nil { close(done) }
Parsed ==
  /\ lpc = "parse"
  /\ read = FileSize
  /\ closed' = (tpc # "none")
  /\ lpc' = "loop"
  /\ idx' = 0
  /\ UNCHANGED << commands, wcommands, progress, sent, read, tpc, tval, ticks,
                  nEvents >>
  /\ UNCHANGED << loaderVars, finVars, auxVars >>

\* the i after the iterations up to the next one that reports, or the end
NextReport(i, n) ==
  IF i + ProgressEvery < n THEN i + ProgressEvery ELSE n

\* the report as a plain send, which waits for room in the channel
ReportBlocking ==
  /\ lpc = "loop"
  /\ idx < nEvents
  /\ idx % ProgressEvery = 0
  /\ Len(commands) < CommandsCap
  /\ Send(Command("setProgress", PassProgress(idx)))
  /\ idx' = NextReport(idx, nEvents)
  /\ UNCHANGED << wcommands, progress, read, closed, lpc, tpc, tval, ticks,
                  nEvents, idx >>
  /\ UNCHANGED << loaderVars, finVars, auxVars >>

\* the iteration of the loop over res.Events with i%10000 == 0: the select
\* with a default, then the iterations that follow it and report nothing
Report ==
  /\ lpc = "loop"
  /\ idx < nEvents
  /\ idx % ProgressEvery = 0
  /\ IF Len(commands) < CommandsCap
       THEN Send(Command("setProgress", PassProgress(idx)))
       ELSE UNCHANGED << commands, sent >>
  /\ idx' = NextReport(idx, nEvents)
  /\ UNCHANGED << wcommands, progress, read, closed, lpc, tpc, tval, ticks,
                  nEvents >>
  /\ UNCHANGED << loaderVars, finVars, auxVars >>

\* the loop is over and loadTrace returns the Trace
Return ==
  /\ lpc = "loop"
  /\ idx = nEvents
  /\ lpc' = "sendTrace"
  /\ UNCHANGED << commands, wcommands, progress, sent, read, closed, tpc, tval,
                  ticks, nEvents, idx >>
  /\ UNCHANGED << loaderVars, finVars, auxVars >>

\* commands <- Command{"loadTrace", t}
SendLoadTrace ==
  /\ lpc = "sendTrace"
  /\ Len(commands) < CommandsCap
  /\ Send(Command("loadTrace", 0))
  /\ lpc' = "end"
  /\ UNCHANGED << wcommands, progress, read, closed, tpc, tval, ticks,
                  nEvents, idx >>
  /\ UNCHANGED << loaderVars, finVars, auxVars >>

\* case <-t.C: the value of the command is computed
Tick ==
  /\ tpc = "select"
  /\ ticks < MaxTicks
  /\ ticks' = ticks + 1
  /\ tval' = ReaderProgress(read)
  /\ tpc' = "sendTick"
  /\ UNCHANGED << commands, wcommands, progress, sent, read, closed, lpc,
                  nEvents, idx >>
  /\ UNCHANGED << loaderVars, finVars, auxVars >>

\* ch <- Command{"setProgress", ...} of case <-t.C
SendTick ==
  /\ tpc = "sendTick"
  /\ Len(commands) < CommandsCap
  /\ Send(Command("setProgress", tval))
  /\ tpc' = "select"
  /\ UNCHANGED << wcommands, progress, read, closed, lpc, tval, ticks,
                  nEvents, idx >>
  /\ UNCHANGED << loaderVars, finVars, auxVars >>

\* case <-done
Done ==
  /\ tpc = "select"
  /\ closed
  /\ tpc' = "sendHalf"
  /\ UNCHANGED << commands, wcommands, progress, sent, read, closed, lpc, tval,
                  ticks, nEvents, idx >>
  /\ UNCHANGED << loaderVars, finVars, auxVars >>

\* ch <- Command{"setProgress", float32(0.5)}; return
SendHalf ==
  /\ tpc = "sendHalf"
  /\ Len(commands) < CommandsCap
  /\ Send(Command("setProgress", Half))
  /\ tpc' = "returned"
  /\ UNCHANGED << wcommands, progress, read, closed, lpc, tval, ticks,
                  nEvents, idx >>
  /\ UNCHANGED << loaderVars, finVars, auxVars >>

\* main's loop: case cmd := <-commands: mwin.commands <- cmd
Forward ==
  /\ commands # <<>>
  /\ Len(wcommands) < WindowCap
  /\ commands' = Tail(commands)
  /\ wcommands' = Append(wcommands, Head(commands))
  /\ UNCHANGED << progress, sent, read, closed, lpc, tpc, tval, ticks,
                  nEvents, idx >>
  /\ UNCHANGED << loaderVars, finVars, auxVars >>

\* the progress of the window after a command
ProgressAfter(c) == IF c.cmd = "setProgress" THEN c.data ELSE 0

\* MainWindow.Run: case cmd := <-w.commands
Run ==
  /\ wcommands # <<>>
  /\ wcommands' = Tail(wcommands)
  /\ progress' = ProgressAfter(Head(wcommands))
  /\ UNCHANGED << commands, sent, read, closed, lpc, tpc, tval, ticks,
                  nEvents, idx >>
  /\ UNCHANGED << loaderVars, finVars, auxVars >>

InitProgress ==
  /\ LoaderInit
  /\ AuxIdle
  /\ FinIdle
  /\ commands = <<>>
  /\ wcommands = <<>>
  /\ progress = 0
  /\ sent = <<>>
  /\ read = 0
  /\ closed = FALSE
  /\ lpc = "start"
  /\ tpc = "off"
  /\ tval = 0
  /\ ticks = 0
  /\ nEvents \in EventCounts
  /\ idx = 0

NextProgress ==
  \/ SendSetState \/ Open \/ Read \/ Parsed \/ Report \/ Return
  \/ SendLoadTrace \/ Tick \/ SendTick \/ Done \/ SendHalf \/ Forward \/ Run

\* a successful loadTrace of main.go and those that take its commands
SpecProgress == InitProgress /\ [][NextProgress]_vars

\* a trace long enough for the pass to report more often than the channel
\* has room
LongTrace == (CommandsCap + 1) * ProgressEvery + 1

InitPass ==
  /\ LoaderInit
  /\ AuxIdle
  /\ FinIdle
  /\ commands = <<>>
  /\ wcommands = <<>>
  /\ progress = 0
  /\ sent = <<>>
  /\ read = 0
  /\ closed = FALSE
  /\ lpc = "start"
  /\ tpc = "off"
  /\ tval = 0
  /\ ticks = 0
  /\ nEvents = LongTrace
  /\ idx = 0

\* how many commands main's loop takes at most while the trace is loaded
MaxForwarded == 2

\* main's loop takes a command, MaxForwarded times at most; the window
\* does not get to run
ForwardSome ==
  /\ Len(wcommands) < MaxForwarded
  /\ Forward

NextPass ==
  \/ SendSetState \/ Open \/ Read \/ Parsed \/ Report \/ Return
  \/ SendLoadTrace \/ Tick \/ SendTick \/ Done \/ SendHalf \/ ForwardSome

\* loadTrace of main.go on a long trace; the pass is a sequential loop and
\* goes on whenever it can, those that take the commands need not
SpecPass ==
  InitPass /\ [][NextPass]_vars /\ WF_vars(Report) /\ WF_vars(Return)

(***************************************************************************)
(* Properties of the reconstruction.                                       *)
(***************************************************************************)
\* the start of a span: the timestamp of the event it refers to
StartOf(s, evs) == EventAt(evs, event(s)).Ts

\* the types of the events of a stream
TypesOf(evs) == [ i \in 1..Len(evs) |-> evs[i].Type ]

\* each span ends where the next one starts, and the list does not end
\* before it starts
Contiguous(spans, evs) ==
  /\ \A i \in 1..(Len(spans) - 1) : spans[i].end = StartOf(spans[i + 1], evs)
  /\ Len(spans) > 0 => StartOf(spans[1], evs) <= spans[Len(spans)].end

\* C1: once loadTrace has returned a Trace, every goroutine's spans are
\* contiguous: the end of each span but the last is the timestamp of the
\* event that opened the next, and the first span starts no later than the
\* last one ends.
C1_GoroutineContiguity ==
  pc = "done" =>
    \A i \in 1..Len(trace.gs) : Contiguous(trace.gs[i].spans, events)

\* a finished model holding a goroutine with two spans or more, the first of
\* which ends after the trace started
C1_Witness ==
  /\ pc = "done"
  /\ \E i \in 1..Len(trace.gs) :
       /\ Len(trace.gs[i].spans) >= 2
       /\ trace.gs[i].spans[1].end > 0

\* spans i and i+1 are a pair the table allows, or the pair the check lets
\* pass at the start of a trace: a first span in stateInactive followed by
\* the span of an EvGoWaiting
LegalPair(spans, i, evs) ==
  \/ legalStateTransitions(spans[i].state, spans[i + 1].state)
  \/ /\ i = 1
     /\ spans[1].state = stateInactive
     /\ EventAt(evs, event(spans[2])).Type = "EvGoWaiting"

\* C2: in the finished model every adjacent pair of states of a goroutine's
\* spans, as the classifier left them, is true in legalStateTransitions,
\* the trace-start pair excepted.
C2_TransitionLegality ==
  pc = "done" =>
    \A g \in 1..Len(trace.gs) :
      \A i \in 1..(Len(trace.gs[g].spans) - 1) :
        LegalPair(trace.gs[g].spans, i, events)

\* a finished model in which the classifier has narrowed a span that follows
\* a mark-assist span
C2_Witness ==
  /\ pc = "done"
  /\ \E g \in 1..Len(trace.gs) :
       \E i \in 1..(Len(trace.gs[g].spans) - 1) :
         /\ trace.gs[g].spans[i].state = stateGCMarkAssist
         /\ trace.gs[g].spans[i + 1].state = stateBlockedSyncOnce

\* one step of the pass, as C3 wants it
C3_Step ==
  /\ \A g \in DOMAIN gsByID :
       ( /\ pc = "seq"
         /\ Len(gsByID[g].spans) > 0
         /\ Len(gsByID'[g].spans) = Len(gsByID[g].spans) + 1 )
       => LegalPair(gsByID'[g].spans, Len(gsByID[g].spans), events')
  /\ ( pc' = "panic" /\ err' = "illegal state transition" ) =>
       /\ \A g \in DOMAIN gsByID : gsByID'[g].spans = gsByID[g].spans
       /\ trace' = NoTrace
  /\ pc = "panic" => UNCHANGED vars

NoDone(spans) == \A j \in 1..Len(spans) : spans[j].state # stateDone

\* C4: no goroutine of the finished model has a span in stateDone, at any
\* position of its list.
C4_NoDoneSpans ==
  pc = "done" =>
    /\ \A i \in 1..Len(trace.gs) : NoDone(trace.gs[i].spans)
    /\ \A g \in DOMAIN gsByID : NoDone(gsByID[g].spans)

\* a finished model of a stream in which a goroutine that is kept has ended
C4_Witness ==
  /\ pc = "done"
  /\ \E i \in 1..Len(events) :
       /\ events[i].Type = "EvGoEnd"
       /\ \E k \in 1..Len(trace.gs) : trace.gs[k].id = events[i].G

\* every span of the list is in one of these states
StatesWithin(spans, states) ==
  \A j \in 1..Len(spans) : spans[j].state \in states

\* C5: in every state of the pass and in the finished model, a goroutine's
\* spans carry goroutine states only, never stateRunningG, and a processor's
\* spans carry stateRunningG only.
C5_SubUniverseClosure ==
  /\ \A g \in DOMAIN gsByID : StatesWithin(gsByID[g].spans, GoroutineStates)
  /\ \A p \in DOMAIN psByID : StatesWithin(psByID[p].spans, ProcessorStates)
  /\ pc = "done" =>
       /\ \A i \in 1..Len(trace.gs) :
            StatesWithin(trace.gs[i].spans, GoroutineStates)
       /\ \A i \in 1..Len(trace.ps) :
            StatesWithin(trace.ps[i].spans, ProcessorStates)

\* a finished model with a goroutine span and a processor span in it
C5_Witness ==
  /\ pc = "done"
  /\ \E i \in 1..Len(trace.gs) : Len(trace.gs[i].spans) > 0
  /\ \E i \in 1..Len(trace.ps) : Len(trace.ps[i].spans) > 0

\* the spans of the list that are open: their end is not set
OpenSpans(spans) == { i \in 1..Len(spans) : spans[i].end = 0 }

\* the open span that was opened last
LastOpen(spans) ==
  CHOOSE i \in OpenSpans(spans) : \A j \in OpenSpans(spans) : j <= i

\* a span was open, and the one opened last is now closed at ts
ClosesLastOpen(old, new, ts) ==
  /\ OpenSpans(old) # {}
  /\ new = [ old EXCEPT ![LastOpen(old)].end = ts ]

\* no end that was set has changed
KeepsClosed(old, new) ==
  \A i \in 1..Len(old) : old[i].end # 0 => new[i].end = old[i].end

\* the step is the pass accepting an event of this type
Accepts(type) ==
  /\ pc = "seq"
  /\ Len(events') = Len(events) + 1
  /\ events'[Len(events')].Type = type

\* one step of the pass, as C8 wants it
C8_Step ==
  /\ Accepts("EvGCDone") =>
       ClosesLastOpen(gc, gc', events'[Len(events')].Ts)
  /\ Accepts("EvGCSTWDone") =>
       ClosesLastOpen(stw, stw', events'[Len(events')].Ts)
  /\ KeepsClosed(gc, gc')
  /\ KeepsClosed(stw, stw')

\* C8: the pass accepts an EvGCDone (EvGCSTWDone) only when a GC (STW) span
\* is open, it then closes the open span opened last, and the end of a span
\* that is closed never changes.
C8_DoneClosesLastOpen == [][C8_Step]_vars

\* a GC span that was closed and whose end a later EvGCDone has set again
C8_Witness ==
  /\ Len(gc) = 1
  /\ Len(events) = 3
  /\ TypesOf(events) = << "EvGCStart", "EvGCDone", "EvGCDone" >>
  /\ events[2].Ts = 1
  /\ gc[1].end = 2

\* C9: the stream EvGCStart, EvGCStart, EvGCDone does not end in a model:
\* loadTrace fails on it.
C9_TwoStartsOneDoneFails ==
  ~ ( /\ pc = "done"
      /\ TypesOf(events) = << "EvGCStart", "EvGCStart", "EvGCDone" >> )

\* the model returned for that stream: the second span closed, the first
\* one left open
C9_Witness ==
  /\ pc = "done"
  /\ TypesOf(events) = << "EvGCStart", "EvGCStart", "EvGCDone" >>
  /\ Len(trace.gc) = 2
  /\ trace.gc[1].end = 0
  /\ trace.gc[2].end = events[3].Ts

\* the pass before its first event
Start ==
  [ events |-> <<>>, gs |-> EmptyMap, ps |-> EmptyMap, gc |-> <<>>,
    stw |-> <<>>, lastSyscall |-> EmptyMap, inMarkAssist |-> {} ]

\* the pass over a whole stream, one event after the other
RECURSIVE Replay(_, _)
Replay(s, evs) ==
  IF evs = <<>> THEN s ELSE Replay(Step(s, Head(evs)), Tail(evs))

\* the goroutines of the model of a stream when each goroutine's unit runs
\* alone from its start to its end, in the order of the goroutine ids
OneByOne(r) ==
  TraceGs(FinalizeAll(r.gs, r.events),
          SortedIDs(RetainedGs(FinalizeAll(r.gs, r.events))))

\* C6: whatever the size of the pool and however the finalization units
\* interleave, the goroutines of the finished model (which are kept, and
\* the end, state, at and event of each of their spans) are those of the
\* event stream finalized one goroutine at a time.
C6_Determinism ==
  pc = "done" => trace.gs = OneByOne(Replay(Start, script))

\* a finished model of several goroutines, made with a pool of more than one
\* unit that were not started in the order of the goroutine ids
C6_Witness ==
  /\ pc = "done"
  /\ gomaxprocs > 1
  /\ Len(trace.gs) >= 2
  /\ rangeG = trace.gs[1].id
  /\ \E i \in 1..Len(trace.gs) : Len(trace.gs[i].spans) >= 2

\* no value of the sequence is below the one before it
NonDecreasing(s) == \A i \in 1..(Len(s) - 1) : s[i] <= s[i + 1]

\* both goroutines that send progress have come to their end
ProgressOver == lpc = "end" /\ tpc \in { "none", "returned" }

\* within a tenth of 1.0
NearOne(v) == 10 * v >= 9 * One

\* C7: the setProgress values the channel of commands takes during one
\* successful loadTrace never decrease, and once the loader and its
\* progress goroutine are through, the last of them is 1.0 or close to it.
C7_MonotonicProgress ==
  /\ NonDecreasing(sent)
  /\ ProgressOver => ( sent # <<>> /\ NearOne(sent[Len(sent)]) )

\* the pass has reported more than one half, and the 0.5 of the progress
\* goroutine has come after it
C7_Witness ==
  /\ Len(sent) >= 2
  /\ sent[Len(sent)] = Half
  /\ sent[Len(sent) - 1] > Half

\* what loadTrace can fail with
FatalCategories ==
  { "illegal state transition", "unsupported trace event",
    "index out of range" }

\* C10: whenever loadTrace fails with one of the fatal categories it returns
\* an error and no Trace; it does not panic, which would end the process.
C10_FatalReturnsError ==
  err \in FatalCategories => ( pc = "error" /\ trace = NoTrace )

\* loadTrace has panicked on an EvGCDone with no GC span
C10_Witness ==
  /\ pc = "panic"
  /\ err = "index out of range"
  /\ Len(gc) = 0
  /\ Len(events) = 0

\* the event types the switch of loadTrace has a case for
HandledTypes ==
  { "EvGoCreate", "EvGoStart", "EvGoStartLabel", "EvGoStop", "EvGoEnd",
    "EvGoSched", "EvGoSleep", "EvGoPreempt", "EvGoBlockSend", "EvGoBlockRecv",
    "EvGoBlockSelect", "EvGoBlockSync", "EvGoBlockCond", "EvGoBlockNet",
    "EvGoBlockGC", "EvGoBlock", "EvGoWaiting", "EvGoUnblock", "EvGoSysCall",
    "EvGoSysBlock", "EvGoInSyscall", "EvGoSysExit", "EvProcStart",
    "EvProcStop", "EvGCMarkAssistStart", "EvGCMarkAssistDone",
    "EvGCSweepStart", "EvGCSweepDone", "EvGCStart", "EvGCSTWStart",
    "EvGCDone", "EvGCSTWDone", "EvHeapAlloc", "EvHeapGoal", "EvGomaxprocs",
    "EvUserTaskCreate", "EvUserTaskEnd", "EvUserRegion", "EvUserLog",
    "EvCPUSample" }

\* one step of the pass, as C11 wants it
C11_Step ==
  /\ ( pc = "seq" /\ Len(events') = Len(events) + 1 ) =>
       events'[Len(events')].Type \in HandledTypes
  /\ ( pc = "seq" /\ pc' = "error" ) =>
       /\ err' = "unsupported trace event"
       /\ trace' = NoTrace
       /\ events' = events
  /\ pc = "error" => UNCHANGED vars

\* C11: the pass never takes an event of a type its switch has no case for:
\* at such an event loadTrace returns an error and no Trace, the stream read
\* so far stays as it was, and nothing is processed after it.
C11_UnsupportedEventFails == [][C11_Step]_vars

\* loadTrace has returned the error after it had built goroutines
C11_Witness ==
  /\ pc = "error"
  /\ err = "unsupported trace event"
  /\ trace = NoTrace
  /\ Len(events) >= 1
  /\ \E g \in DOMAIN gsByID : Len(gsByID[g].spans) > 0

\* the event types loadTrace records as side events of ev.G
SideEventTypes == { "EvGoCreate", "EvGoUnblock", "EvGoSysCall", "EvUserLog" }

\* the side events recorded for goroutine g so far
SideEventsOf(gs, g) == IF g \in DOMAIN gs THEN gs[g].events ELSE <<>>

\* one step of the pass, as C12 wants it
C12_Step ==
  \A t \in SideEventTypes :
    Accepts(t) =>
      IF events'[Len(events')].G = 0
        THEN SideEventsOf(gsByID', 0) = SideEventsOf(gsByID, 0)
        ELSE /\ events'[Len(events')].G \in DOMAIN gsByID
             /\ Len(gsByID[events'[Len(events')].G].spans) > 0

\* C12: a side event of goroutine 0 records nothing, and the pass takes a
\* side event of another goroutine only if that goroutine has a span to
\* attach it to; otherwise construction stops.
C12_SideEventNeedsSpan == [][C12_Step]_vars

\* a goroutine other than 0 that holds a side event and has no span
C12_Witness ==
  \E g \in DOMAIN gsByID :
    /\ g # 0
    /\ Len(gsByID[g].spans) = 0
    /\ Len(gsByID[g].events) > 0

\* the EvGoSysCall events of goroutine g among the first k events
SysCallsBefore(evs, g, k) ==
  { i \in 1..k : evs[i].Type = "EvGoSysCall" /\ evs[i].G = g }

\* the last of them
LastSysCallBefore(evs, g, k) ==
  CHOOSE i \in SysCallsBefore(evs, g, k) :
    \A j \in SysCallsBefore(evs, g, k) : j <= i

\* span s of goroutine g was opened by an EvGoSysBlock that followed an
\* EvGoSysCall of g
OpenedBySysBlock(s, g, evs) ==
  /\ s.state = stateBlockedSyscall
  /\ EventAt(evs, event(s)).Type = "EvGoSysBlock"
  /\ SysCallsBefore(evs, g, event(s)) # {}

\* C13: the stack of a BlockedSyscall span that an EvGoSysBlock opened on
\* goroutine g is the stack of the last EvGoSysCall of g before it.
C13_SyscallStack ==
  \A g \in DOMAIN gsByID :
    \A j \in 1..Len(gsByID[g].spans) :
      OpenedBySysBlock(gsByID[g].spans[j], g, events) =>
        EventAt(events, event(gsByID[g].spans[j])).StkID =
          events[LastSysCallBefore(events, g, event(gsByID[g].spans[j]))].StkID

\* a finished model in which two goroutines each have such a span, with
\* different stacks, neither of them the stack the EvGoSysBlock came with
C13_Witness ==
  /\ pc = "done"
  /\ \E g, h \in DOMAIN gsByID :
       \E j \in 1..Len(gsByID[g].spans) :
         \E k \in 1..Len(gsByID[h].spans) :
           /\ g # h
           /\ OpenedBySysBlock(gsByID[g].spans[j], g, events)
           /\ OpenedBySysBlock(gsByID[h].spans[k], h, events)
           /\ EventAt(events, event(gsByID[g].spans[j])).StkID = 5
           /\ EventAt(events, event(gsByID[h].spans[k])).StkID = 3

\* the states of a list of spans, in order
StatesOf(spans) == [ i \in 1..Len(spans) |-> spans[i].state ]

\* the [start, end) ranges of a list of spans, in order
RangesOf(spans, evs) ==
  [ i \in 1..Len(spans) |-> << StartOf(spans[i], evs), spans[i].end >> ]

\* the model of the six-event stream is finished
SixEventsDone == pc = "done" /\ script = ScriptRunBlockEnd

\* C14 as stated: the six-event stream yields exactly one goroutine, id 5,
\* whose finalized span states are Created, Active, BlockedNet, Active, the
\* Done span dropped and each span contiguous with the next.
C14_FourStates ==
  SixEventsDone =>
    /\ Len(trace.gs) = 1
    /\ trace.gs[1].id = 5
    /\ StatesOf(trace.gs[1].spans) =
         << stateCreated, stateActive, stateBlockedNet, stateActive >>
    /\ Contiguous(trace.gs[1].spans, events)

\* C14 amended: the six-event stream yields exactly one goroutine, id 5,
\* whose finalized span states are Created, Active, BlockedNet, Ready, Active
\* (EvGoUnblock opens a Ready span), the Done span dropped and each span
\* contiguous with the next.
C14_FiveStates ==
  SixEventsDone =>
    /\ Len(trace.gs) = 1
    /\ trace.gs[1].id = 5
    /\ StatesOf(trace.gs[1].spans) =
         << stateCreated, stateActive, stateBlockedNet, stateReady,
            stateActive >>
    /\ Contiguous(trace.gs[1].spans, events)

\* the six events were all taken, EvGoEnd last, and the model was assembled
C14_Witness ==
  /\ SixEventsDone
  /\ Len(events) = 6
  /\ events[6].Type = "EvGoEnd"
  /\ Len(trace.gs) = 1
  /\ Len(trace.gs[1].spans) = 5

IsActive(s) == s.state = stateActive

\* C15: for the six-event stream the model has exactly one processor, id 0,
\* with exactly two RunningG spans whose [start, end) ranges are those of the
\* two Active spans of goroutine 5.
C15_ProcessorMirrorsActive ==
  SixEventsDone =>
    /\ Len(trace.ps) = 1
    /\ trace.ps[1].id = 0
    /\ StatesOf(trace.ps[1].spans) = << stateRunningG, stateRunningG >>
    /\ Len(trace.gs) = 1
    /\ trace.gs[1].id = 5
    /\ RangesOf(trace.ps[1].spans, events) =
         RangesOf(SelectSeq(trace.gs[1].spans, IsActive), events)

\* the finished model of the six events: the processor ran goroutine 5
\* over [1, 2) and over [4, 5)
C15_Witness ==
  /\ SixEventsDone
  /\ Len(trace.ps) = 1
  /\ RangesOf(trace.ps[1].spans, events) = << <<1, 2>>, <<4, 5>> >>
  /\ Len(SelectSeq(trace.gs[1].spans, IsActive)) = 2

\* C16: in the finished model every processor's spans are contiguous
\* (spans[i].end = spans[i+1].start) and spans[0].start <= spans[last].end.
C16_ProcessorContiguity ==
  pc = "done" =>
    \A i \in 1..Len(trace.ps) : Contiguous(trace.ps[i].spans, events)

\* a finished model with a processor that was idle between two spans
C16_Witness ==
  /\ pc = "done"
  /\ \E i \in 1..Len(trace.ps) :
       \E j \in 1..(Len(trace.ps[i].spans) - 1) :
         /\ trace.ps[i].spans[j].end >= StartOf(trace.ps[i].spans[j], events)
         /\ trace.ps[i].spans[j].end <
              StartOf(trace.ps[i].spans[j + 1], events)

\* C17: every processor span gets an end during finalization, so no
\* processor span of the finished model has end < start.
C17_ProcessorSpansEnd ==
  pc = "done" =>
    \A i \in 1..Len(trace.ps) :
      \A j \in 1..Len(trace.ps[i].spans) :
        trace.ps[i].spans[j].end >= StartOf(trace.ps[i].spans[j], events)

\* a finished model whose last event started a goroutine on a processor: the
\* processor's last span was never stopped and its end is before its start
C17_Witness ==
  /\ pc = "done"
  /\ Len(events) > 0
  /\ events[Len(events)].Type = "EvGoStart"
  /\ \E i \in 1..Len(trace.ps) :
       /\ trace.ps[i].id = events[Len(events)].P
       /\ trace.ps[i].spans[Len(trace.ps[i].spans)].end <
            StartOf(trace.ps[i].spans[Len(trace.ps[i].spans)], events)

\* C18: when loadTrace collects and sorts the goroutines, and when it returns
\* the Trace, every goroutine's finalization unit has completed: none is
\* running, none is yet to start.
C18_AssembleAfterUnits ==
  pc \in { "assemble", "done" } =>
    /\ \A g \in DOMAIN unit : unit[g].pc = "done"
    /\ wg = 0
    /\ sem = 0

\* the driver is about to collect the goroutines of a stream with several
\* goroutines, whose units could run side by side
C18_Witness ==
  /\ pc = "assemble"
  /\ gomaxprocs >= 2
  /\ Cardinality(DOMAIN unit) >= 2
  /\ \A g \in DOMAIN unit : unit[g].pc = "done"

\* the ids of the goroutines of the finished model
TraceGids == { trace.gs[i].id : i \in 1..Len(trace.gs) }

\* C19: every goroutine of the finished model has at least one span, and a
\* goroutine left with no span after finalization is not in the model.
C19_NoEmptyGoroutines ==
  pc = "done" =>
    /\ \A i \in 1..Len(trace.gs) : Len(trace.gs[i].spans) >= 1
    /\ \A g \in DOMAIN gsByID :
         Len(gsByID[g].spans) = 0 => g \notin TraceGids

\* a finished model that left out a goroutine known by a log message only
\* and a goroutine whose only span was a Done span, and kept the others
C19_Witness ==
  /\ pc = "done"
  /\ \E g, h \in DOMAIN gsByID :
       /\ Len(gsByID[g].spans) = 0
       /\ Len(gsByID[g].events) > 0
       /\ g \notin TraceGids
       /\ Len(gsByID[h].spans) = 0
       /\ Len(gsByID[h].events) = 0
       /\ \E i \in 1..Len(events) :
            events[i].Type = "EvGoEnd" /\ events[i].G = h
       /\ h \notin TraceGids
  /\ TraceGids # {}

\* a list of records is strictly ascending by id
AscendingByID(list) ==
  \A i, j \in 1..Len(list) : i < j => list[i].id < list[j].id

\* C20: in the finished model the goroutine list and the processor list are
\* strictly ascending by id, in whatever order the stream named the ids.
C20_SortedByID ==
  pc = "done" => AscendingByID(trace.gs) /\ AscendingByID(trace.ps)

\* a finished model of a stream that named the higher goroutine and the
\* higher processor first, with both goroutines and both processors in it
C20_Witness ==
  /\ pc = "done"
  /\ Len(events) >= 2
  /\ events[1].G > events[2].G
  /\ events[1].P > events[2].P
  /\ { events[1].G, events[2].G } \subseteq TraceGids
  /\ Len(trace.gs) >= 2
  /\ Len(trace.ps) >= 2

\* the units whose goroutine has been started and has not returned
LiveUnits == { g \in DOMAIN unit : unit[g].pc \in { "loop", "release", "signal" } }

\* the units that hold a slot of the pool: started, <-sem not yet done
UnitsInPool == { g \in DOMAIN unit : unit[g].pc \in { "loop", "release" } }

\* C21 as stated: at every moment of the finalization pass the number of
\* units that have started and not yet finished is at most the pool size.
C21_LiveUnitsBounded ==
  pc = "finalize" => Cardinality(LiveUnits) <= gomaxprocs

\* C21 amended: at every moment of the finalization pass the number of units
\* that have started and not yet given back their slot of the pool is the
\* number of slots taken and at most the pool size; a unit that has given
\* its slot back and has only wg.Done() left is not counted.
C21_PoolBounded ==
  pc = "finalize" =>
    /\ Cardinality(UnitsInPool) = sem
    /\ sem <= gomaxprocs

\* the pool is full while a goroutine waits for its unit to be started and
\* an earlier unit has yet to call wg.Done()
C21_Witness ==
  /\ pc = "finalize"
  /\ sem = gomaxprocs
  /\ \E g \in DOMAIN unit : unit[g].pc = "idle"
  /\ \E g \in DOMAIN unit : unit[g].pc = "signal"
  /\ Cardinality(DOMAIN unit) > gomaxprocs

\* the pass is at a report and the channel has no room
ChannelFullAtReport ==
  /\ lpc = "loop"
  /\ idx < nEvents
  /\ Len(commands) = CommandsCap

\* a step of the pass from there drops the notification and goes on
C22_Step ==
  ( ChannelFullAtReport /\ idx' # idx ) =>
    /\ commands' = commands
    /\ sent' = sent
    /\ idx' = NextReport(idx, nEvents)

\* C22: the sequential pass never waits for the progress channel: a
\* notification the channel has no room for is dropped and the pass goes on,
\* so the pass comes to its end even if nobody ever takes a command.
C22_PassNeverBlocks ==
  /\ [][C22_Step]_vars
  /\ ( lpc = "loop" ) ~> ( lpc = "sendTrace" )

\* the pass has come to its end although nobody took a single command: the
\* channel is full and notifications of the pass were dropped
C22_Witness ==
  /\ lpc = "sendTrace"
  /\ idx = nEvents
  /\ wcommands = <<>>
  /\ Len(commands) = CommandsCap
  /\ Len(sent) < CommandsCap + 2

\* what finalization makes of the last span of a goroutine with spans before
\* and spans after
TailFinalized(before, after, evs) ==
  IF before[Len(before)].state = stateDone
    THEN /\ Len(after) = Len(before) - 1
         /\ Len(after) > 0 =>
              after[Len(after)].end = StartOf(before[Len(before)], evs)
    ELSE /\ Len(after) = Len(before)
         /\ after[Len(after)].end = evs[Len(evs)].Ts

\* finalization of a whole stream in one step, and the tail of one unit
C23_Step ==
  /\ ( pc = "seq" /\ pc' = "done" ) =>
       \A g \in DOMAIN gsByID :
         Len(gsByID[g].spans) > 0 =>
           TailFinalized(gsByID[g].spans, gsByID'[g].spans, events)
  /\ pc = "finalize" =>
       \A g \in DOMAIN unit :
         ( unit[g].pc = "loop" /\ unit'[g].pc = "release"
           /\ Len(gsByID[g].spans) > 0 ) =>
           TailFinalized(gsByID[g].spans, gsByID'[g].spans, events)

\* C23: finalization ends a goroutine's last span at the timestamp of the
\* last event of the trace when it is not Done, and removes it when it is
\* Done, the span before it ending where the Done span started.
C23_TailOfFinalization == [][C23_Step]_vars

\* a finished model with a goroutine that ended before the trace did, whose
\* last span ends at its EvGoEnd, and a goroutine whose last span ends with
\* the trace
C23_Witness ==
  /\ pc = "done"
  /\ \E i \in 1..Len(events), k \in 1..Len(trace.gs) :
       /\ events[i].Type = "EvGoEnd"
       /\ events[i].G = trace.gs[k].id
       /\ events[i].Ts < events[Len(events)].Ts
       /\ trace.gs[k].spans[Len(trace.gs[k].spans)].end = events[i].Ts
  /\ \E k \in 1..Len(trace.gs) :
       /\ trace.gs[k].spans[Len(trace.gs[k].spans)].end = events[Len(events)].Ts
       /\ StartOf(trace.gs[k].spans[Len(trace.gs[k].spans)], events) <
            events[Len(events)].Ts

\* goroutine g has started a mark assist in evs and has not ended it since
InAssist(evs, g) ==
  \E i \in 1..Len(evs) :
    /\ evs[i].Type = "EvGCMarkAssistStart"
    /\ evs[i].G = g
    /\ \A j \in (i + 1)..Len(evs) :
         ~ ( evs[j].Type = "EvGCMarkAssistDone" /\ evs[j].G = g )

\* the state of the last span of goroutine g
LastStateOf(gs, g) == gs[g].spans[Len(gs[g].spans)].state

\* an accepted EvGoStart appends a span whose state its own goroutine's
\* assists decide
C24_Step ==
  Accepts("EvGoStart") =>
    /\ Len(gsByID'[events'[Len(events')].G].spans) =
         Len(getG(gsByID, events'[Len(events')].G)[events'[Len(events')].G].spans) + 1
    /\ LastStateOf(gsByID', events'[Len(events')].G) =
         IF InAssist(events, events'[Len(events')].G)
           THEN stateGCMarkAssist
           ELSE stateActive

\* C24: an EvGoStart of goroutine g opens a GCMarkAssist span exactly when g
\* has started a mark assist and not ended it since, and an Active span
\* otherwise; the assists of other goroutines play no part.
C24_StartIntoMarkAssist == [][C24_Step]_vars

\* goroutine 1 was started into its mark assist after goroutine 2 had been
\* started Active during it, and was started Active once the assist was done
C24_Witness ==
  /\ script = ScriptMarkAssist
  /\ Len(events) = 8
  /\ StatesOf(gsByID[1].spans) =
       << stateActive, stateGCMarkAssist, stateReady, stateGCMarkAssist,
          stateActive, stateReady, stateActive >>
  /\ StatesOf(gsByID[2].spans) = << stateActive >>

\* the events that start a goroutine on a processor
StartClass == { "EvGoStart", "EvGoStartLabel" }

\* the events that take a goroutine off its processor
StopClass ==
  { "EvGoStop", "EvGoEnd", "EvGoSched", "EvGoSleep", "EvGoPreempt",
    "EvGoBlock", "EvGoSysBlock" } \cup BlockTypes

\* the spans of processor p, none if the processor is not known
PSpans(ps, p) == IF p \in DOMAIN ps THEN ps[p].spans ELSE <<>>

\* after is before with one open RunningG span of event evID appended
OneSpanAppended(before, after, evID) ==
  /\ Len(after) = Len(before) + 1
  /\ SubSeq(after, 1, Len(before)) = before
  /\ after[Len(after)].state = stateRunningG
  /\ event(after[Len(after)]) = evID
  /\ after[Len(after)].end = 0

\* after is before with the end of its last span set to ts
LastSpanEnded(before, after, ts) ==
  /\ Len(before) > 0
  /\ after = [ before EXCEPT ![Len(before)].end = ts ]

\* what event ev, the one with id evID, does to the spans of processor p
ProcessorEffect(ev, evID, p, before, after) ==
  IF p = ev.P /\ ev.Type \in StartClass
    THEN OneSpanAppended(before, after, evID)
    ELSE IF p = ev.P /\ ev.Type \in StopClass
           THEN LastSpanEnded(before, after, ev.Ts)
           ELSE after = before

\* a step that takes an event and goes on has that event's effect on every
\* processor; a step that takes none changes no processor's spans
C25_Step ==
  /\ ( pc = "seq" /\ pc' = "seq" /\ Len(events') = Len(events) + 1 ) =>
       \A p \in Pids \cup DOMAIN psByID' :
         ProcessorEffect(events'[Len(events')], Len(events), p,
                         PSpans(psByID, p), PSpans(psByID', p))
  /\ Len(events') = Len(events) =>
       \A p \in Pids \cup DOMAIN psByID' :
         PSpans(psByID', p) = PSpans(psByID, p)

\* C25: an EvGoStart or EvGoStartLabel appends exactly one RunningG span to
\* the processor it names, a stop-class event sets the end of the last span
\* of the processor it names to its timestamp, and no other event changes
\* the spans of any processor.
C25_ProcessorSpans == [][C25_Step]_vars

\* two processors with an open span each, then a stop on one of them: its
\* span is closed and the other's is still open
C25_Witness ==
  /\ pc = "seq"
  /\ Len(events) > 0
  /\ events[Len(events)].Type \in StopClass
  /\ events[Len(events)].Ts > 0
  /\ \E p, q \in DOMAIN psByID :
       /\ p # q
       /\ events[Len(events)].P = p
       /\ Len(psByID[p].spans) = 1
       /\ psByID[p].spans[1].end = events[Len(events)].Ts
       /\ Len(psByID[q].spans) = 1
       /\ psByID[q].spans[1].end = 0

\* the spans of goroutine g, none if the goroutine is not known
GSpans(gs, g) == IF g \in DOMAIN gs THEN gs[g].spans ELSE <<>>

\* no goroutine and no processor has a span appended, removed or changed
SameSpans ==
  /\ \A g \in DOMAIN gsByID \cup DOMAIN gsByID' :
       GSpans(gsByID', g) = GSpans(gsByID, g)
  /\ \A p \in DOMAIN psByID \cup DOMAIN psByID' :
       PSpans(psByID', p) = PSpans(psByID, p)

\* the side events change for goroutine g only, which gets event evID added
\* unless g is 0
SideEventAdded(g, evID) ==
  \A h \in DOMAIN gsByID \cup DOMAIN gsByID' :
    SideEventsOf(gsByID', h) =
      IF h = g /\ g # 0
        THEN Append(SideEventsOf(gsByID, h), evID)
        ELSE SideEventsOf(gsByID, h)

\* the last syscall stack changes for goroutine g only, to stkID
SyscallStackRecorded(g, stkID) ==
  /\ g \in DOMAIN lastSyscall'
  /\ \A h \in DOMAIN lastSyscall \cup DOMAIN lastSyscall' :
       LastSyscallOf(lastSyscall', h) =
         IF h = g THEN stkID ELSE LastSyscallOf(lastSyscall, h)

\* the whole effect of an accepted EvGoSysCall
C26_Step ==
  Accepts("EvGoSysCall") =>
    /\ pc' = "seq"
    /\ SameSpans
    /\ SyscallStackRecorded(events'[Len(events')].G, events'[Len(events')].StkID)
    /\ SideEventAdded(events'[Len(events')].G, Len(events))
    /\ UNCHANGED << gc, stw, inMarkAssist >>

\* C26: an EvGoSysCall appends no span to any goroutine or processor and
\* closes none; it records its stack id as the last syscall stack of its
\* goroutine and adds itself to that goroutine's side events, and nothing
\* else changes.
C26_SysCallKeepsSpanOpen == [][C26_Step]_vars

\* a running goroutine has made two syscalls: its Active span is still its
\* last and open, both events are among its side events and the stack of
\* the second is the one recorded
C26_Witness ==
  /\ pc = "seq"
  /\ Len(events) = 3
  /\ events[2].Type = "EvGoSysCall"
  /\ events[3].Type = "EvGoSysCall"
  /\ events[2].G = events[3].G
  /\ events[2].StkID # events[3].StkID
  /\ StatesOf(gsByID[events[3].G].spans) = << stateActive >>
  /\ gsByID[events[3].G].spans[1].end = 0
  /\ gsByID[events[3].G].events = << 1, 2 >>
  /\ lastSyscall[events[3].G] = events[3].StkID

\* the events of the collector
GCClass == { "EvGCStart", "EvGCDone", "EvGCSTWStart", "EvGCSTWDone" }

\* an accepted event of the collector leaves everything else alone
C27_Step ==
  \A t \in GCClass :
    Accepts(t) => UNCHANGED << gsByID, psByID, inMarkAssist, lastSyscall >>

\* C27: EvGCStart, EvGCDone, EvGCSTWStart and EvGCSTWDone change the GC and
\* STW lists only: the goroutines with their spans and side events, the
\* processors, the mark-assist set and the last syscall stacks stay as they
\* are.
C27_GCEventsTouchGCListsOnly == [][C27_Step]_vars

\* a collection started and ended while a goroutine was in a mark assist:
\* the GC span is closed, the goroutine and the set are as they were
C27_Witness ==
  /\ pc = "seq"
  /\ Len(events) = 3
  /\ events[3].Type = "EvGCDone"
  /\ Len(gc) = 1
  /\ gc[1].end = events[3].Ts
  /\ inMarkAssist # {}
  /\ \E g \in DOMAIN gsByID : Len(gsByID[g].spans) > 0

\* C28: construction leaves the parsed event table as the parser returned
\* it: every event keeps its type, timestamp, goroutine, processor,
\* arguments and stack id.
C28_EventTableUnchanged ==
  \A i \in 1..Len(events) : events[i] = script[i]

\* a Trace was returned whose EvGoSysBlock event no longer has the stack id
\* the parser gave it
C28_Witness ==
  /\ pc = "done"
  /\ \E i \in 1..Len(events) :
       /\ events[i].Type = "EvGoSysBlock"
       /\ script[i].StkID = 0
       /\ events[i].StkID # 0
       /\ [ events[i] EXCEPT !.StkID = 0 ] = script[i]

\* the case in which the check is left out: the goroutine's only span is
\* Inactive and the event is EvGoWaiting
StartOfTracing(spans, type) ==
  /\ Len(spans) = 1
  /\ spans[1].state = stateInactive
  /\ type = "EvGoWaiting"

\* goroutine g had a span and the step gave it one more
SpanAdded(g) ==
  /\ pc = "seq"
  /\ Len(GSpans(gsByID, g)) >= 1
  /\ Len(GSpans(gsByID', g)) = Len(GSpans(gsByID, g)) + 1

\* a span added to a goroutine that had one makes a pair of the table,
\* unless the event is the EvGoWaiting of the start of tracing
C29_Step ==
  \A g \in DOMAIN gsByID' :
    SpanAdded(g) =>
      \/ StartOfTracing(GSpans(gsByID, g), events'[Len(events')].Type)
      \/ legalStateTransitions(LastStateOf(gsByID, g), LastStateOf(gsByID', g))

\* C29: the legality check is left out only when the goroutine has exactly
\* one span, that span is Inactive and the event is EvGoWaiting; every other
\* event that gives a state to a goroutine with a span has its pair checked
\* against the table before the span is appended.
C29_NarrowCarveOut == [][C29_Step]_vars

\* the EvGoWaiting of a goroutine whose only span was Inactive was taken by
\* a pair the table does not have, and its second EvGoWaiting was refused
C29_Witness ==
  /\ script = ScriptWaitingTwice
  /\ pc = "panic"
  /\ Len(events) = 3
  /\ events[3].Type = "EvGoWaiting"
  /\ StatesOf(gsByID[1].spans) = << stateInactive, stateBlocked >>
  /\ ~ legalStateTransitions(stateInactive, stateBlocked)
  /\ ~ legalStateTransitions(stateBlocked, stateBlocked)

\* the coarse state a state is a specialization of
Family(state) ==
  IF state \in { stateBlockedSyncOnce, stateBlockedSyncTriggeringGC }
    THEN stateBlockedSync
    ELSE state

\* the stack has a frame some pattern of the classifier knows
MatchesPattern(stack) ==
  \/ HasFrame(PCs, stack, "sync.(*Once).doSlow")
  \/ HasFrame(PCs, stack, "runtime.gcStart")

\* span after is span before, classified by the stack of its event: the
\* state stays in its family, and stays what it was if no pattern matches
ClassifiedWithinFamily(before, after, evs) ==
  /\ Family(after.state) = Family(before.state)
  /\ after.state # before.state =>
       /\ before.state = Family(before.state)
       /\ MatchesPattern(SpanStack(before, evs))

\* finalization of a whole stream in one step, and one iteration of a unit
C30_Step ==
  /\ ( pc = "seq" /\ pc' = "done" ) =>
       \A g \in DOMAIN gsByID :
         \A i \in 1..Len(gsByID'[g].spans) :
           ClassifiedWithinFamily(gsByID[g].spans[i], gsByID'[g].spans[i],
                                  events)
  /\ pc = "finalize" =>
       \A g \in DOMAIN gsByID :
         \A i \in 1..Len(gsByID'[g].spans) :
           ClassifiedWithinFamily(gsByID[g].spans[i], gsByID'[g].spans[i],
                                  events)

\* C30: the classifier, as finalization applies it, leaves a span's state as
\* it is or replaces it by a specialization of the same coarse state, never
\* by a state of another family, and leaves it as it is when the stack
\* matches no pattern.
C30_ClassifierSpecializes == [][C30_Step]_vars

\* a finished model of a goroutine with a BlockedSend span whose stack has
\* the sync.Once frame, a span narrowed to BlockedSyncOnce by that frame and
\* a BlockedSync span whose stack matches no pattern
C30_Witness ==
  /\ pc = "done"
  /\ \E k \in 1..Len(trace.gs) :
       \E i, j, l \in 1..Len(trace.gs[k].spans) :
         /\ trace.gs[k].spans[i].state = stateBlockedSend
         /\ MatchesPattern(SpanStack(trace.gs[k].spans[i], events))
         /\ trace.gs[k].spans[j].state = stateBlockedSyncOnce
         /\ MatchesPattern(SpanStack(trace.gs[k].spans[j], events))
         /\ trace.gs[k].spans[l].state = stateBlockedSync
         /\ ~ MatchesPattern(SpanStack(trace.gs[k].spans[l], events))

\* frame k of a stack, counted from 0 as the code does, is in the runtime
RuntimeFrame(stack, k) == HasRuntimePrefix(PCs[stack[k + 1]])

\* at is where the loop over the frames of a stack that is not empty stops:
\* within the stack and within a uint8, after frames of the runtime only, at
\* the first frame that is not in the runtime or at one of the two bounds
AtStopsRight(at, stack) ==
  /\ at \in 0..255
  /\ at <= Len(stack) - 1
  /\ \A k \in 0..(at - 1) : RuntimeFrame(stack, k)
  /\ \/ ~ RuntimeFrame(stack, at)
     \/ at = Len(stack) - 1
     \/ at = 255

\* C31: after finalization, for every span with a stack that is not empty,
\* the offset at is at most len(stack)-1 and at most 255, has not wrapped
\* around, and is where the loop had to stop: at the first frame outside the
\* runtime or at one of those bounds.
C31_AtWithinBounds ==
  pc = "done" =>
    \A k \in 1..Len(trace.gs) :
      \A i \in 1..Len(trace.gs[k].spans) :
        Len(SpanStack(trace.gs[k].spans[i], events)) > 0 =>
          AtStopsRight(trace.gs[k].spans[i].at,
                       SpanStack(trace.gs[k].spans[i], events))

\* a finished model with a span whose offset stopped at 255 in a stack of
\* more runtime frames than that, one whose offset 255 is the first frame
\* outside the runtime, and one whose stack has a runtime frame only
C31_Witness ==
  /\ pc = "done"
  /\ \E k \in 1..Len(trace.gs) :
       \E i, j, l \in 1..Len(trace.gs[k].spans) :
         /\ trace.gs[k].spans[i].at = 255
         /\ Len(SpanStack(trace.gs[k].spans[i], events)) > 257
         /\ RuntimeFrame(SpanStack(trace.gs[k].spans[i], events), 255)
         /\ trace.gs[k].spans[j].at = 255
         /\ ~ RuntimeFrame(SpanStack(trace.gs[k].spans[j], events), 255)
         /\ trace.gs[k].spans[l].at = 0
         /\ Len(SpanStack(trace.gs[k].spans[l], events)) = 1
         /\ RuntimeFrame(SpanStack(trace.gs[k].spans[l], events), 0)

(***************************************************************************)
(* packEventID and Span.event at the width of EventID.  An EventID is a    *)
(* 64-bit unsigned integer, held here as three limbs                       *)
(* << bits 0..23, bits 24..47, bits 48..63 >>.                             *)
(***************************************************************************)
\* the ids handed to packEventID: the corners of every byte of the id
LowLimbs == { 0, 1, 255, 256, 65535, 65536, 16777215 }
MidLimbs == { 0, 1, 255, 256, 65535, 65536, 16777215 }
HighLimbs == { 0, 1, 65535 }
EventIDs == LowLimbs \X MidLimbs \X HighLimbs

\* id >= 1<<40
AtLeastUint40(id) == id[2] >= 65536 \/ id[3] > 0

\* [5]byte{byte(id), byte(id >> 8), byte(id >> 16), byte(id >> 24),
\*         byte(id >> 32)}
LowFiveBytes(id) ==
  << id[1] % 256, (id[1] \div 256) % 256, (id[1] \div 65536) % 256,
     id[2] % 256, (id[2] \div 256) % 256 >>

\* packEventID without its check of the id
packEventIDUnchecked(id) ==
  [ panic |-> FALSE, bytes |-> LowFiveBytes(id) ]

\* packEventID of a 64-bit id: a panic, or the five bytes
packEventIDWide(id) ==
  IF debug /\ AtLeastUint40(id)
    THEN [ panic |-> TRUE, bytes |-> << 0, 0, 0, 0, 0 >> ]
    ELSE [ panic |-> FALSE, bytes |-> LowFiveBytes(id) ]

\* Span.event() as a 64-bit id
eventWide(event_) ==
  << event_[1] + event_[2] * 256 + event_[3] * 65536,
     event_[4] + event_[5] * 256,
     0 >>

\* event_: packEventID(EventID(evID))
PackEventID ==
  /\ ppc = "id"
  /\ \E r \in { packEventIDWide(wid) } :
       /\ ppc' = IF r.panic THEN "panic" ELSE "packed"
       /\ packed' = r.bytes
  /\ UNCHANGED << wid, unpacked >>
  /\ UNCHANGED << loaderVars, finVars, progVars, listVars >>

\* s.event()
SpanEvent ==
  /\ ppc = "packed"
  /\ unpacked' = eventWide(packed)
  /\ ppc' = "unpacked"
  /\ UNCHANGED << wid, packed >>
  /\ UNCHANGED << loaderVars, finVars, progVars, listVars >>

InitPack ==
  /\ LoaderInit
  /\ FinIdle
  /\ ProgIdle
  /\ ListIdle
  /\ ppc = "id"
  /\ wid \in EventIDs
  /\ packed = << 0, 0, 0, 0, 0 >>
  /\ unpacked = << 0, 0, 0 >>

NextPack == PackEventID \/ SpanEvent

\* packEventID and Span.event over the corners of the 64-bit ids
SpecPack == InitPack /\ [][NextPack]_vars

\* C32: an id below 2^40 is packed, and Span.event gives back the id that
\* packEventID was given; an id of 2^40 or more makes packEventID panic, so
\* that no wrapped value is stored
C32_PackRoundTrip ==
  /\ ppc = "unpacked" => unpacked = wid
  /\ ppc \in { "packed", "unpacked" } => ~ AtLeastUint40(wid)
  /\ ppc = "panic" => AtLeastUint40(wid)

\* the largest id that fits has gone through packEventID and Span.event
C32_Witness ==
  /\ ppc = "unpacked"
  /\ wid = << 16777215, 65535, 0 >>
  /\ packed = << 255, 255, 255, 255, 255 >>
  /\ unpacked = wid

\* the retained spans of a finished model that end before they start
EndsBeforeStart(spans, evs) ==
  { i \in 1..Len(spans) : spans[i].end < StartOf(spans[i], evs) }

\* C33: in the finished model every retained goroutine span ends no earlier
\* than it starts, the last span of a goroutine and the span before a
\* dropped Done span included
C33_NonNegativeDuration ==
  pc = "done" =>
    \A k \in 1..Len(trace.gs) : EndsBeforeStart(trace.gs[k].spans, events) = {}

\* a finished model of a goroutine that ended before the trace did: its
\* Done span is dropped, the span before it starts after the start of the
\* trace and ends later, at the EvGoEnd
C33_Witness ==
  /\ pc = "done"
  /\ \E k \in 1..Len(trace.gs) :
       /\ Len(trace.gs[k].spans) = 2
       /\ trace.gs[k].spans[2].state = stateActive
       /\ StartOf(trace.gs[k].spans[2], events) > 0
       /\ trace.gs[k].spans[2].end > StartOf(trace.gs[k].spans[2], events)
       /\ events[Len(events)].Type = "EvGoEnd"
       /\ events[Len(events)].Ts = trace.gs[k].spans[2].end

\* the spans of a GC or STW list that end before they start
LeftOpen(spans, evs) ==
  { i \in 1..Len(spans) : spans[i].end < StartOf(spans[i], evs) }

\* C34: in the finished model every GC span and every STW span has been
\* closed, with an end no earlier than its start; a start event without a
\* later done event leaves no span with the zero timestamp as its end
C34_GCSpansClosed ==
  pc = "done" =>
    /\ LeftOpen(trace.gc, events) = {}
    /\ LeftOpen(trace.stw, events) = {}

\* a finished model of a stream that ends during a collection and during a
\* stop of the world: both spans start after timestamp 0 and have end 0
C34_Witness ==
  /\ pc = "done"
  /\ Len(trace.gc) = 1
  /\ Len(trace.stw) = 1
  /\ StartOf(trace.gc[1], events) > 0
  /\ StartOf(trace.stw[1], events) > 0
  /\ trace.gc[1].end = 0
  /\ trace.stw[1].end = 0
  /\ \A i \in 1..Len(events) :
       events[i].Type \notin { "EvGCDone", "EvGCSTWDone" }

\* each started unit holds one slot until its release and one count of the
\* WaitGroup until its signal: none releases or signals twice or not at all
OncePerUnit ==
  pc = "finalize" =>
    /\ sem = Cardinality(UnitsInPool)
    /\ wg = Cardinality(LiveUnits)
    /\ sem \in 0..gomaxprocs

\* a unit moves through release and signal once, in this order, and stays
\* done
UnitOrder ==
  \A g \in DOMAIN unit :
    /\ unit[g].pc = "release" => unit'[g].pc \in { "release", "signal" }
    /\ unit[g].pc = "signal" => unit'[g].pc \in { "signal", "done" }
    /\ unit[g].pc = "done" => unit'[g].pc = "done"

\* C35: the finalization pass ends for every scripted set of goroutines and
\* every pool size from 1: each unit gives back the slot it took and
\* signals once, the driver's loop gets every unit started and its wait
\* returns, and the Trace is assembled
C35_FinalizationTerminates ==
  /\ [] OncePerUnit
  /\ [][pc = "finalize" /\ pc' = "finalize" => UnitOrder]_vars
  /\ ( pc = "finalize" ) ~> ( pc = "done" )

\* a pass over three goroutines with a pool of one slot has ended
C35_Witness ==
  /\ pc = "done"
  /\ gomaxprocs = 1
  /\ Cardinality(DOMAIN unit) >= 3
  /\ \A g \in DOMAIN unit : unit[g].pc = "done"
  /\ sem = 0
  /\ wg = 0

\* the commands on their way to the main window, the oldest first
InFlight == wcommands \o commands

\* a setProgress is behind the loadTrace on the way to the window
ProgressBehindTerminal ==
  \E i, j \in 1..Len(InFlight) :
    /\ i < j
    /\ InFlight[i].cmd = "loadTrace"
    /\ InFlight[j].cmd = "setProgress"

\* every command of the load has been received by the window
AllReceived == ProgressOver /\ InFlight = <<>>

\* C36: no setProgress of a load is received by the main window after the
\* load's loadTrace: none follows it on the way to the window, and once all
\* commands are received the window is in the state loadTrace left it in,
\* with progress 0
C36_TerminalCommandLast ==
  /\ ~ ProgressBehindTerminal
  /\ AllReceived => progress = 0

\* the window has received every command of the load and the last one was
\* the progress goroutine's setProgress 0.5, after the loadTrace
C36_Witness ==
  /\ AllReceived
  /\ tpc = "returned"
  /\ progress = Half
  /\ sent[Len(sent)] = Half

\* a list of event references in stream order, and so in timestamp order
InStreamOrder(evIDs, evs) ==
  \A i \in 1..(Len(evIDs) - 1) :
    /\ evIDs[i] < evIDs[i + 1]
    /\ EventAt(evs, evIDs[i]).Ts <= EventAt(evs, evIDs[i + 1]).Ts

\* C37: as long as loadTrace has not failed, the side-event list of every
\* goroutine holds references in stream order, which is non-decreasing
\* timestamp order, and so do the lists of the finished model
C37_SideEventsInStreamOrder ==
  /\ pc \in { "seq", "finalize", "assemble", "done" } =>
       \A g \in DOMAIN gsByID : InStreamOrder(gsByID[g].events, events)
  /\ pc = "done" =>
       \A k \in 1..Len(trace.gs) : InStreamOrder(trace.gs[k].events, events)

\* a finished model with a goroutine that has two side events at different
\* timestamps
C37_Witness ==
  /\ pc = "done"
  /\ \E k \in 1..Len(trace.gs) :
       /\ Len(trace.gs[k].events) >= 2
       /\ EventAt(events, trace.gs[k].events[1]).Ts
            < EventAt(events, trace.gs[k].events[2]).Ts

(***************************************************************************)
(* Span.Events: the side events that fall into a span.                     *)
(***************************************************************************)
\* sort.Search(n, func(i) { return tr.Event(all[i]).Ts >= ts }) started with
\* the bounds i and j: the binary search of package sort, indices from 0
RECURSIVE sortSearch(_, _, _, _, _)
sortSearch(all, evs, i, j, ts) ==
  IF i < j
    THEN IF EventAt(evs, all[((i + j) \div 2) + 1]).Ts >= ts
           THEN sortSearch(all, evs, i, (i + j) \div 2, ts)
           ELSE sortSearch(all, evs, ((i + j) \div 2) + 1, j, ts)
    ELSE i

\* the bounds start and end of the slice all[start:end] that Span.Events
\* returns, << 0, 0 >> for its nil
EventsBounds(s, all, evs) ==
  IF Len(all) = 0
    THEN << 0, 0 >>
    ELSE << sortSearch(all, evs, 0,
                       sortSearch(all, evs, 0, Len(all), s.end),
                       StartOf(s, evs)),
            sortSearch(all, evs, 0, Len(all), s.end) >>

\* Span.Events(all, tr)
Span_Events(s, all, evs) ==
  SubSeq(all, EventsBounds(s, all, evs)[1] + 1, EventsBounds(s, all, evs)[2])

\* the spans of a goroutine whose Events return the j-th of its side events
SpansWithEvent(g, j, evs) ==
  { i \in 1..Len(g.spans) :
      \E n \in 1..Len(Span_Events(g.spans[i], g.events, evs)) :
        Span_Events(g.spans[i], g.events, evs)[n] = g.events[j] }

\* C38: every side event of a goroutine of the finished model is returned by
\* Span.Events for exactly one of the goroutine's retained spans
C38_SideEventInOneSpan ==
  pc = "done" =>
    \A k \in 1..Len(trace.gs) :
      \A j \in 1..Len(trace.gs[k].events) :
        Cardinality(SpansWithEvent(trace.gs[k], j, events)) = 1

\* a finished model whose last event is a side event of a goroutine with one
\* span: the span ends at the timestamp of that event, after it started, and
\* Span.Events leaves the event out
C38_Witness ==
  /\ pc = "done"
  /\ \E k \in 1..Len(trace.gs) :
       /\ Len(trace.gs[k].spans) = 1
       /\ Len(trace.gs[k].events) = 1
       /\ trace.gs[k].events[1] = Len(events) - 1
       /\ StartOf(trace.gs[k].spans[1], events) < trace.gs[k].spans[1].end
       /\ trace.gs[k].spans[1].end = events[Len(events)].Ts
       /\ Span_Events(trace.gs[k].spans[1], trace.gs[k].events, events) = <<>>

(***************************************************************************)
(* The goroutine selector: ListWindow and the frames of MainWindow.Run     *)
(* that show it.                                                           *)
(***************************************************************************)
MaxPerFrame == 2

\* the goroutines of the trace, by their function, and the texts typed
ItemLists ==
  { <<>>, << "main.main" >>, << "main.main", "runtime.bgsweep" >> }
FilterTexts == { "", "main", "run", "x" }
KeyNames == { "Up", "Down", "Escape" }

\* strings.Contains(item.Function, f) for these functions and texts
strings_Contains(s, substr) ==
  \/ substr = ""
  \/ << s, substr >> \in { << "main.main", "main" >>,
                           << "runtime.bgsweep", "run" >> }

\* NewListWindow and SetItems: every item is in the filtered list
SetItems(items) ==
  [ NoListWindow EXCEPT !.items = items,
                        !.filtered = [ i \in 1..Len(items) |-> i - 1 ] ]

\* the indices, from 0, of the items that w.Filter accepts for the text f
Filtered(items, f) ==
  SelectSeq([ i \in 1..Len(items) |-> i - 1 ],
            LAMBDA j : strings_Contains(items[j + 1], f))

\* firstVisible, lastVisible and visibleCount of handleKey
firstVisible(w) == w.first + (IF w.offsetPos THEN 1 ELSE 0)
lastVisible(w) == w.first + w.count - 1 - (IF w.offsetLastNeg THEN 1 ELSE 0)
visibleCount(w) == lastVisible(w) - firstVisible(w) + 1

\* case "Up" of handleKey
KeyUp(w) ==
  IF w.index - 1 < 0
    THEN [ w EXCEPT !.index = Len(w.filtered) - 1,
                    !.first = (Len(w.filtered) - 1) - visibleCount(w) + 1 ]
    ELSE [ w EXCEPT !.index = @ - 1,
                    !.first = IF w.index - 1 < firstVisible(w)
                                THEN @ - 1 ELSE @ ]

\* case "Down" of handleKey
KeyDown(w) ==
  IF w.index + 1 >= Len(w.filtered)
    THEN [ w EXCEPT !.index = 0, !.first = 0, !.offsetPos = FALSE ]
    ELSE [ w EXCEPT !.index = @ + 1,
                    !.first = IF w.index + 1 > lastVisible(w)
                                THEN @ + 1 ELSE @ ]

\* handleKey for a key press
handleKey(w, name) ==
  CASE name = "Up" -> KeyUp(w)
    [] name = "Down" -> KeyDown(w)
    [] name = "Escape" -> [ w EXCEPT !.cancelled = TRUE ]

\* case widget.ChangeEvent
ChangeEvent(w) ==
  [ w EXCEPT !.filtered = Filtered(w.items, w.text),
             !.index = IF @ >= Len(Filtered(w.items, w.text))
                         THEN Len(Filtered(w.items, w.text)) - 1
                         ELSE @ ]

\* case widget.SubmitEvent
SubmitEvent(w) ==
  IF Len(w.filtered) # 0 THEN [ w EXCEPT !.done = TRUE ] ELSE w

\* the largest element of a non-empty set of numbers
Greatest(S) == CHOOSE m \in S : \A n \in S : n <= m

\* the loop over w.filtered for the rows in clicked: the last one clicked
\* is selected
Clicked(w, clicked) ==
  IF clicked = {}
    THEN w
    ELSE [ w EXCEPT !.index = Greatest(clicked), !.done = TRUE ]

\* can w.filtered[w.index] be read?
IndexInRange(w) == w.index \in 0..(Len(w.filtered) - 1)

\* the key G in state main: NewListWindow, SetItems, Filter
OpenList ==
  /\ ww = "nil"
  /\ \E items \in ItemLists : lw' = SetItems(items)
  /\ ww' = "run"
  /\ UNCHANGED << steps, confirmed >>
  /\ UNCHANGED << loaderVars, finVars, progVars, packVars >>

\* ww.Confirmed() with done set: the item, or the panic of the index
\* expression; Run scrolls to the item and drops the window
RunConfirmed ==
  /\ ww = "run"
  /\ lw.done
  /\ IF IndexInRange(lw)
       THEN /\ confirmed' = "item"
            /\ ww' = "nil"
            /\ lw' = NoListWindow
       ELSE /\ confirmed' = "panic"
            /\ ww' = "panic"
            /\ lw' = [ lw EXCEPT !.done = FALSE ]
  /\ UNCHANGED steps
  /\ UNCHANGED << loaderVars, finVars, progVars, packVars >>

\* ww.Confirmed() returns false, ww.Cancelled() true
RunCancelled ==
  /\ ww = "run"
  /\ ~ lw.done
  /\ lw.cancelled
  /\ ww' = "nil"
  /\ lw' = NoListWindow
  /\ UNCHANGED << steps, confirmed >>
  /\ UNCHANGED << loaderVars, finVars, progVars, packVars >>

\* ww.Layout up to its loops over the events: the editor has the text typed
\* so far, the list has laid out its rows
LayoutWidgets ==
  /\ ww = "run"
  /\ ~ lw.done
  /\ ~ lw.cancelled
  /\ \E t \in FilterTexts, f \in 0..Len(lw.filtered), op, ol \in BOOLEAN :
       \E c \in 0..(Len(lw.filtered) - f) :
         lw' = [ lw EXCEPT !.text = t, !.first = f, !.count = c,
                           !.offsetPos = op, !.offsetLastNeg = ol ]
  /\ ww' = "spy"
  /\ steps' = 0
  /\ UNCHANGED confirmed
  /\ UNCHANGED << loaderVars, finVars, progVars, packVars >>

\* one key press of the loop over spy.AllEvents()
SpyKey ==
  /\ ww = "spy"
  /\ steps < MaxPerFrame
  /\ \E name \in KeyNames : lw' = handleKey(lw, name)
  /\ steps' = steps + 1
  /\ UNCHANGED << ww, confirmed >>
  /\ UNCHANGED << loaderVars, finVars, progVars, packVars >>

\* the end of that loop
SpyEnd ==
  /\ ww = "spy"
  /\ ww' = "input"
  /\ steps' = 0
  /\ UNCHANGED << lw, confirmed >>
  /\ UNCHANGED << loaderVars, finVars, progVars, packVars >>

\* a widget.ChangeEvent of the loop over w.input.Events()
InputChange ==
  /\ ww = "input"
  /\ steps < MaxPerFrame
  /\ lw' = ChangeEvent(lw)
  /\ steps' = steps + 1
  /\ UNCHANGED << ww, confirmed >>
  /\ UNCHANGED << loaderVars, finVars, progVars, packVars >>

\* a widget.SubmitEvent of that loop
InputSubmit ==
  /\ ww = "input"
  /\ steps < MaxPerFrame
  /\ lw' = SubmitEvent(lw)
  /\ steps' = steps + 1
  /\ UNCHANGED << ww, confirmed >>
  /\ UNCHANGED << loaderVars, finVars, progVars, packVars >>

\* the end of that loop and the loop over the rows for clicks
Clicks ==
  /\ ww = "input"
  /\ \E clicked \in SUBSET (0..(Len(lw.filtered) - 1)) :
       lw' = Clicked(lw, clicked)
  /\ ww' = "keys"
  /\ steps' = 0
  /\ UNCHANGED confirmed
  /\ UNCHANGED << loaderVars, finVars, progVars, packVars >>

\* one key press of the loop over gtx.Events(w)
OwnKey ==
  /\ ww = "keys"
  /\ steps < MaxPerFrame
  /\ \E name \in KeyNames : lw' = handleKey(lw, name)
  /\ steps' = steps + 1
  /\ UNCHANGED << ww, confirmed >>
  /\ UNCHANGED << loaderVars, finVars, progVars, packVars >>

\* Layout returns; the next frame
LayoutReturns ==
  /\ ww = "keys"
  /\ ww' = "run"
  /\ steps' = 0
  /\ UNCHANGED << lw, confirmed >>
  /\ UNCHANGED << loaderVars, finVars, progVars, packVars >>

InitList ==
  /\ LoaderInit
  /\ FinIdle
  /\ ProgIdle
  /\ PackIdle
  /\ ListIdle

NextList ==
  \/ OpenList \/ RunConfirmed \/ RunCancelled \/ LayoutWidgets
  \/ SpyKey \/ SpyEnd \/ InputChange \/ InputSubmit \/ Clicks
  \/ OwnKey \/ LayoutReturns

\* the frames of the main window from the key G to the end of the selector
SpecList == InitList /\ [][NextList]_vars

\* C39: whenever Confirmed finds done set, the selection index is within
\* the filtered list, so that Confirmed never indexes it out of range
C39_ConfirmedIndexInRange ==
  /\ ( ww = "run" /\ lw.done ) => IndexInRange(lw)
  /\ confirmed # "panic"

\* Confirmed has panicked: the filter had left no item and the index at -1,
\* a later text brought items back, and a submit set done
C39_Witness ==
  /\ ww = "panic"
  /\ confirmed = "panic"
  /\ lw.index = -1
  /\ Len(lw.filtered) > 0

====
